---- MODULE Spec2Model ----
(***************************************************************************)
(* Host availability and metrics reconciliation of server/zabbix-api.ts:   *)
(* the per-host body of GET /api/zabbix/hosts, the per-host loop body of   *)
(* POST /api/zabbix/metrics and the handler of GET /api/zabbix/problems.   *)
(*                                                                         *)
(* JavaScript strings are TLA+ strings; the string functions the code      *)
(* calls (toLowerCase, trim, startsWith, includes, parseFloat, parseInt)   *)
(* are computed character by character.  null / undefined is Null.         *)
(***************************************************************************)
EXTENDS Integers, Sequences, FiniteSets, TLC

\* ------------------------------------------------------------------------
\* Bounds of the model
\* ------------------------------------------------------------------------
MaxItems == 2
MaxIfaces == 2
MaxProblems == 3
MaxTriggers == 2
MaxHosts == 2

\* ------------------------------------------------------------------------
\* JavaScript values and string functions
\* ------------------------------------------------------------------------
\* null / undefined: a value apart from every string of the input alphabet
Null == "<null>"

\* value || fallback on a string-or-null value
OrElse(v, d) == IF v = Null \/ v = "" THEN d ELSE v

Char(s, i) == SubSeq(s, i, i)

UpperAlphabet == "ABCDEFGHIJKLMNOPQRSTUVWXYZ"
LowerAlphabet == "abcdefghijklmnopqrstuvwxyz"

UpperChars == {Char(UpperAlphabet, i) : i \in 1..26}

LowerOf ==
  [c \in UpperChars |->
     Char(LowerAlphabet, CHOOSE i \in 1..26 : Char(UpperAlphabet, i) = c)]

LowerChar(c) == IF c \in UpperChars THEN LowerOf[c] ELSE c

\* String.prototype.toLowerCase, character by character
RECURSIVE LowerCased(_)
LowerCased(s) ==
  IF Len(s) = 0 THEN ""
  ELSE LowerChar(Char(s, 1)) \o LowerCased(SubSeq(s, 2, Len(s)))

\* the keys, names and values that recur in the answers of the monitoring
\* server, converted once
RecurringStrings ==
  { "Agent availability", "Agent check", "CPU utilization", "Disk space usage",
    "ICMP loss", "ICMP response time", "Incoming network traffic",
    "Memory utilization", "Outgoing network traffic", "Ping check",
    "Ping to address", "System uptime", "CPU frequency", "icmpping", "agent.ping",
    "icmppingloss", "net.latency", "custom.avail", "ICMPPing[10.0.0.5]",
    "", "0", "1", "UP", "Down", "n/a" }

LowerCasedOnce == [s \in RecurringStrings |-> LowerCased(s)]

\* String.prototype.toLowerCase
ToLowerCase(s) == IF s \in RecurringStrings THEN LowerCasedOnce[s] ELSE LowerCased(s)

StartsWith(s, p) == Len(s) >= Len(p) /\ SubSeq(s, 1, Len(p)) = p

Includes(s, p) ==
  \E i \in 1..(Len(s) - Len(p) + 1) : SubSeq(s, i, i + Len(p) - 1) = p

IsSpace(c) == c = " "

RECURSIVE TrimStart(_)
TrimStart(s) ==
  IF Len(s) > 0 /\ IsSpace(Char(s, 1)) THEN TrimStart(SubSeq(s, 2, Len(s))) ELSE s

RECURSIVE TrimEnd(_)
TrimEnd(s) ==
  IF Len(s) > 0 /\ IsSpace(Char(s, Len(s))) THEN TrimEnd(SubSeq(s, 1, Len(s) - 1)) ELSE s

Trim(s) == TrimEnd(TrimStart(s))

Digits == "0123456789"

DigitChars == {Char(Digits, i) : i \in 1..10}

DigitOf == [c \in DigitChars |-> (CHOOSE i \in 1..10 : Char(Digits, i) = c) - 1]

IsDigit(c) == c \in DigitChars

DigitVal(c) == DigitOf[c]

\* length of the longest prefix of s made of decimal digits
RECURSIVE DigitRun(_)
DigitRun(s) ==
  IF Len(s) > 0 /\ IsDigit(Char(s, 1)) THEN 1 + DigitRun(SubSeq(s, 2, Len(s))) ELSE 0

\* value of a string of decimal digits ("" is 0)
RECURSIVE DigitsVal(_)
DigitsVal(s) ==
  IF Len(s) = 0 THEN 0
  ELSE 10 * DigitsVal(SubSeq(s, 1, Len(s) - 1)) + DigitVal(Char(s, Len(s)))

RECURSIVE Pow10(_)
Pow10(n) == IF n <= 0 THEN 1 ELSE 10 * Pow10(n - 1)

\* A JavaScript number: NaN, or the exact decimal mant / 10^scale
NaN == [nan |-> TRUE, mant |-> 0, scale |-> 0]

RECURSIVE Normal(_, _)
Normal(m, sc) ==
  IF m = 0 THEN [nan |-> FALSE, mant |-> 0, scale |-> 0]
  ELSE IF sc < 0 THEN Normal(m * 10, sc + 1)
  ELSE IF sc > 0 /\ m % 10 = 0 THEN Normal(m \div 10, sc - 1)
  ELSE [nan |-> FALSE, mant |-> m, scale |-> sc]

Num(n) == Normal(n, 0)

IsNaN(x) == x.nan

\* x > 0 on JavaScript numbers (false for NaN)
Positive(x) == ~x.nan /\ x.mant > 0

\* -x on JavaScript numbers
Negate(x) == IF x.nan THEN x ELSE [x EXCEPT !.mant = -x.mant]

\* the longest prefix of s made of decimal digits, and what follows it
LeadingDigits(s) == SubSeq(s, 1, DigitRun(s))
AfterDigits(s) == SubSeq(s, DigitRun(s) + 1, Len(s))

Rest(s) == SubSeq(s, 2, Len(s))

\* the exponent part: e or E, an optional sign and at least one digit
SignedDigits(s) ==
  IF Len(s) > 0 /\ Char(s, 1) = "-" THEN -DigitsVal(LeadingDigits(Rest(s)))
  ELSE IF Len(s) > 0 /\ Char(s, 1) = "+" THEN DigitsVal(LeadingDigits(Rest(s)))
  ELSE DigitsVal(LeadingDigits(s))

Exponent(rest) ==
  IF Len(rest) > 0 /\ Char(rest, 1) \in {"e", "E"} THEN SignedDigits(Rest(rest)) ELSE 0

\* integer digits ip, fraction digits fp, rest of the string
ParseAfterFraction(ip, fp, rest) ==
  IF Len(ip) + Len(fp) = 0 THEN NaN
  ELSE Normal(DigitsVal(ip \o fp), Len(fp) - Exponent(rest))

ParseAfterInteger(ip, rest) ==
  IF Len(rest) > 0 /\ Char(rest, 1) = "."
    THEN ParseAfterFraction(ip, LeadingDigits(Rest(rest)), AfterDigits(Rest(rest)))
    ELSE ParseAfterFraction(ip, "", rest)

ParseUnsigned(s) == ParseAfterInteger(LeadingDigits(s), AfterDigits(s))

ParseSigned(s) ==
  IF Len(s) > 0 /\ Char(s, 1) = "-" THEN Negate(ParseUnsigned(Rest(s)))
  ELSE IF Len(s) > 0 /\ Char(s, 1) = "+" THEN ParseUnsigned(Rest(s))
  ELSE ParseUnsigned(s)

\* parseFloat: leading white space, optional sign, digits with an optional
\* fraction and an optional exponent; anything after the number is ignored;
\* no digits at all gives NaN
ParseFloat(str) == ParseSigned(TrimStart(str))

\* the integer part of parseInt: digits, NaN when there is none
ParseDigits(s) == IF DigitRun(s) = 0 THEN NaN ELSE Num(DigitsVal(LeadingDigits(s)))

\* parseInt (radix 10): leading white space, optional sign, digits; NaN
\* when there is no digit
ParseInt(str) ==
  IF Len(TrimStart(str)) > 0 /\ Char(TrimStart(str), 1) = "-"
    THEN Negate(ParseDigits(Rest(TrimStart(str))))
  ELSE IF Len(TrimStart(str)) > 0 /\ Char(TrimStart(str), 1) = "+"
    THEN ParseDigits(Rest(TrimStart(str)))
  ELSE ParseDigits(TrimStart(str))

\* Array.prototype.find, on the sequence of the predicate's values: index of
\* the first element satisfying the predicate, 0 if none (undefined)
Find(matches) ==
  IF \E i \in 1..Len(matches) : matches[i]
    THEN CHOOSE i \in 1..Len(matches) : matches[i] /\ \A j \in 1..(i - 1) : ~matches[j]
    ELSE 0

\* ------------------------------------------------------------------------
\* Inputs: what the monitoring server and the operating system can answer
\* ------------------------------------------------------------------------
Item(k, n, v, st, lc) ==
  [key_ |-> k, name |-> n, lastvalue |-> v, status |-> st, lastclock |-> lc]

\* item names in the order item.get (sortfield: name) returns them
NameOrder ==
  << "Agent availability", "Agent check", "CPU frequency", "CPU utilization",
     "Disk space usage",
     "ICMP loss", "ICMP response time", "Incoming network traffic",
     "Memory utilization", "Outgoing network traffic", "Ping check",
     "Ping to address", "System uptime" >>

NameRank(n) == CHOOSE i \in 1..Len(NameOrder) : NameOrder[i] = n

\* Date.now() / 1000 at the time a host is analysed
NowSet == {1600}

\* last-update clocks: 599 s old, 600 s old, never updated, absent
FreshClock == "1001"
StaleClock == "1000"

\* the items of the monitoring server: exact keys, a bracketed key, keys and
\* names that match only loosely, numbers, tokens, junk, empty and absent
\* values, fresh and stale clocks, enabled ("0") and disabled ("1") items
ItemCatalogue ==
  {Item("icmpping", "Ping check", v, "0", FreshClock) : v \in {"1", " Down ", "n/a", ""}}
    \cup {Item("icmpping", "Ping check", v, "0", StaleClock) : v \in {"0", ""}}
    \cup {Item("icmpping", "Ping check", "1", "1", FreshClock)}
    \cup {Item("agent.ping", "Agent check", v, "0", FreshClock) : v \in {"1", "n/a", Null}}
    \cup {Item("agent.ping", "Agent check", "0", "0", StaleClock)}
    \cup {Item("agent.ping", "Agent check", "UP", "0", Null)}
    \cup {Item("agent.ping", "Agent check", Null, "0", "0")}
    \cup {Item("icmppingloss", "ICMP loss", "0", "0", FreshClock)}
    \cup {Item("net.latency", "ICMP response time", "1", "0", FreshClock)}
    \cup {Item("custom.avail", "Agent availability", "1", "0", FreshClock)}
    \cup {Item("ICMPPing[10.0.0.5]", "Ping to address", "0", "0", FreshClock)}
    \cup {Item("system.cpu.util", "CPU utilization", "37.5", "0", FreshClock)}

SortedByName(s) ==
  \A i \in 1..(Len(s) - 1) : NameRank(s[i].name) <= NameRank(s[i + 1].name)

\* the item lists an item.get call can return: sorted by name
ItemLists ==
  {s \in UNION {[1..n -> ItemCatalogue] : n \in 0..MaxItems} : SortedByName(s)}

Iface(ip, av) == [ip |-> ip, available |-> av]

IfaceCatalogue ==
  {Iface("10.0.0.5", "1"), Iface("10.0.0.5", "2"), Iface("10.0.0.5", "0")}

\* the hosts host.get can return: up to MaxIfaces interfaces with an
\* address, one interface without address and availability, one interface
\* whose address field is no address, or one unavailable interface reached
\* by name, its address field empty
HostSet ==
  {[interfaces |-> s] : s \in UNION {[1..n -> IfaceCatalogue] : n \in 0..MaxIfaces}}
    \cup {[interfaces |-> <<Iface("N/A", Null)>>]}
    \cup {[interfaces |-> <<Iface("10.0.0.300", "1")>>]}
    \cup {[interfaces |-> <<Iface("", "2")>>]}

\* ------------------------------------------------------------------------
\* Signals common to both endpoints
\* ------------------------------------------------------------------------
\* host.interfaces?.[0]?.ip
FirstIp(h) == IF Len(h.interfaces) = 0 THEN Null ELSE h.interfaces[1].ip

\* ipAddress && ipAddress !== "N/A"
HasIp(h) == FirstIp(h) # Null /\ FirstIp(h) # "" /\ FirstIp(h) # "N/A"

\* pingResult ? "responding" : "no response"
PingStatus(pingResult) == IF pingResult THEN "responding" ELSE "no response"

\* lastvalue !== undefined && lastvalue !== null && lastvalue !== ''
HasValue(v) == v # Null /\ v # ""

\* i.status === '0' || i.status === 0
IsEnabled(i) == i.status = "0"


\* ------------------------------------------------------------------------
\* GET /api/zabbix/hosts: the body run for one host
\* ------------------------------------------------------------------------
\* the interface loop: every interface is scanned
RECURSIVE HostsInterfaceLoop(_, _, _)
HostsInterfaceLoop(ifaces, k, acc) ==
  IF k > Len(ifaces) THEN acc
  ELSE LET val == ParseInt(OrElse(ifaces[k].available, "0"))
       IN  IF val = Num(1)
             THEN HostsInterfaceLoop(ifaces, k + 1, [acc EXCEPT !.hasAvailableInterface = TRUE])
           ELSE IF val = Num(2)
             THEN HostsInterfaceLoop(ifaces, k + 1, [acc EXCEPT !.hasUnavailableInterface = TRUE])
           ELSE HostsInterfaceLoop(ifaces, k + 1, acc)

HostsInterfaces(h) ==
  HostsInterfaceLoop(h.interfaces, 1,
    [hasAvailableInterface |-> FALSE, hasUnavailableInterface |-> FALSE])

\* HostsIcmpMatch without the test of the item's status
HostsIcmpMatchAnyStatus(i) ==
  LET key == ToLowerCase(OrElse(i.key_, ""))
      name == ToLowerCase(OrElse(i.name, ""))
  IN  \/ key = "icmpping"
      \/ key = "icmpping[]"
      \/ StartsWith(key, "icmpping[")
      \/ Includes(key, "icmp")
      \/ Includes(name, "icmp ping")
      \/ Includes(name, "ping response")
      \/ Includes(name, "icmp response")

\* predicate of the icmpItem search
HostsIcmpMatch(i) ==
  LET key == ToLowerCase(OrElse(i.key_, ""))
      name == ToLowerCase(OrElse(i.name, ""))
  IN  IsEnabled(i) /\
      ( \/ key = "icmpping"
        \/ key = "icmpping[]"
        \/ StartsWith(key, "icmpping[")
        \/ Includes(key, "icmp")
        \/ Includes(name, "icmp ping")
        \/ Includes(name, "ping response")
        \/ Includes(name, "icmp response") )

HostsIcmpItem(its) == Find([i \in 1..Len(its) |-> HostsIcmpMatch(its[i])])

\* predicate of the agentItem search
HostsAgentMatch(i) ==
  LET key == ToLowerCase(OrElse(i.key_, ""))
      name == ToLowerCase(OrElse(i.name, ""))
  IN  IsEnabled(i) /\
      ( \/ key = "agent.ping"
        \/ key = "agent.ping[]"
        \/ StartsWith(key, "agent.ping[")
        \/ Includes(key, "agent.ping")
        \/ Includes(name, "agent ping")
        \/ Includes(name, "zabbix agent ping")
        \/ Includes(name, "agent availability") )

HostsAgentItem(its) == Find([i \in 1..Len(its) |-> HostsAgentMatch(its[i])])

\* isRecent: the age test of a found item
IsRecent(item, t) ==
  LET lastUpdate == ParseInt(OrElse(item.lastclock, "0"))
  IN  ~IsNaN(lastUpdate) /\ t - lastUpdate.mant < 600

\* HostsIcmpCoerce with the sign test written >= 0: zero counts as a reply
HostsIcmpCoerceNonNegative(lastvalue) ==
  LET strValue == Trim(lastvalue)
      numValue == ParseFloat(strValue)
  IN  IF ~IsNaN(numValue)
        THEN (IF Positive(numValue) \/ numValue = Num(0) THEN "responding" ELSE "no response")
      ELSE IF strValue = "1" \/ ToLowerCase(strValue) = "up" THEN "responding"
      ELSE IF strValue = "0" \/ ToLowerCase(strValue) = "down" THEN "no response"
      ELSE "unknown"

\* the value parse of the ICMP item
HostsIcmpCoerce(lastvalue) ==
  LET strValue == Trim(lastvalue)
      numValue == ParseFloat(strValue)
  IN  IF ~IsNaN(numValue) THEN (IF Positive(numValue) THEN "responding" ELSE "no response")
      ELSE IF strValue = "1" \/ ToLowerCase(strValue) = "up" THEN "responding"
      ELSE IF strValue = "0" \/ ToLowerCase(strValue) = "down" THEN "no response"
      ELSE "unknown"

\* HostsIcmpStatus with the age test placed before the value test
HostsIcmpStatusStaleFirst(its, t) ==
  LET k == HostsIcmpItem(its)
  IN  IF k # 0
        THEN IF ~IsRecent(its[k], t) THEN "stale data"
             ELSE IF HasValue(its[k].lastvalue) THEN HostsIcmpCoerce(its[k].lastvalue)
             ELSE "no data"
        ELSE "not configured"

HostsIcmpStatus(its, t) ==
  LET k == HostsIcmpItem(its)
  IN  IF k # 0
        THEN IF HasValue(its[k].lastvalue)
               THEN HostsIcmpCoerce(its[k].lastvalue)
               ELSE (IF IsRecent(its[k], t) THEN "no data" ELSE "stale data")
        ELSE "not configured"

\* the value parse of the agent item
HostsAgentCoerce(lastvalue) ==
  LET strValue == Trim(lastvalue)
      agentValue == ParseFloat(strValue)
  IN  IF ~IsNaN(agentValue) THEN (IF Positive(agentValue) THEN "available" ELSE "unavailable")
      ELSE IF strValue = "1" \/ ToLowerCase(strValue) = "up" THEN "available"
      ELSE IF strValue = "0" \/ ToLowerCase(strValue) = "down" THEN "unavailable"
      ELSE "unknown"

\* HostsAgentStatus with the age test placed before the value test
HostsAgentStatusStaleFirst(its, t) ==
  LET k == HostsAgentItem(its)
  IN  IF k # 0
        THEN IF ~IsRecent(its[k], t) THEN "stale data"
             ELSE IF HasValue(its[k].lastvalue) THEN HostsAgentCoerce(its[k].lastvalue)
             ELSE "no data"
        ELSE "not configured"

HostsAgentStatus(its, t) ==
  LET k == HostsAgentItem(its)
  IN  IF k # 0
        THEN IF HasValue(its[k].lastvalue)
               THEN HostsAgentCoerce(its[k].lastvalue)
               ELSE (IF IsRecent(its[k], t) THEN "no data" ELSE "stale data")
        ELSE "not configured"

\* HostsScore with the agent check weighted like the interface flag
HostsScoreAgentLight(directPingStatus, icmpStatus, agentStatus, fl) ==
  (IF directPingStatus = "responding" THEN 3
   ELSE IF directPingStatus = "no response" THEN -3 ELSE 0)
  + (IF icmpStatus = "responding" THEN 2
     ELSE IF icmpStatus = "no response" THEN -2 ELSE 0)
  + (IF agentStatus = "available" THEN 1
     ELSE IF agentStatus = "unavailable" THEN -1 ELSE 0)
  + (IF fl.hasAvailableInterface THEN 1
     ELSE IF fl.hasUnavailableInterface THEN -1 ELSE 0)

\* HostsScore with a direct ping that outweighs the three other signals
HostsScoreDirectDominant(directPingStatus, icmpStatus, agentStatus, fl) ==
  (IF directPingStatus = "responding" THEN 5
   ELSE IF directPingStatus = "no response" THEN -5 ELSE 0)
  + (IF icmpStatus = "responding" THEN 2
     ELSE IF icmpStatus = "no response" THEN -2 ELSE 0)
  + (IF agentStatus = "available" THEN 2
     ELSE IF agentStatus = "unavailable" THEN -2 ELSE 0)
  + (IF fl.hasAvailableInterface THEN 1
     ELSE IF fl.hasUnavailableInterface THEN -1 ELSE 0)

\* HostsScore with the direct ping weighted 4
HostsScoreHeavyPing(directPingStatus, icmpStatus, agentStatus, fl) ==
  (IF directPingStatus = "responding" THEN 4
   ELSE IF directPingStatus = "no response" THEN -4 ELSE 0)
  + (IF icmpStatus = "responding" THEN 2
     ELSE IF icmpStatus = "no response" THEN -2 ELSE 0)
  + (IF agentStatus = "available" THEN 2
     ELSE IF agentStatus = "unavailable" THEN -2 ELSE 0)
  + (IF fl.hasAvailableInterface THEN 1
     ELSE IF fl.hasUnavailableInterface THEN -1 ELSE 0)

\* HostsScore with the interface flag weighted like the direct ping
HostsScoreFlagHeavy(directPingStatus, icmpStatus, agentStatus, fl) ==
  (IF directPingStatus = "responding" THEN 3
   ELSE IF directPingStatus = "no response" THEN -3 ELSE 0)
  + (IF icmpStatus = "responding" THEN 2
     ELSE IF icmpStatus = "no response" THEN -2 ELSE 0)
  + (IF agentStatus = "available" THEN 2
     ELSE IF agentStatus = "unavailable" THEN -2 ELSE 0)
  + (IF fl.hasAvailableInterface THEN 3
     ELSE IF fl.hasUnavailableInterface THEN -3 ELSE 0)

\* availabilityScore
HostsScore(directPingStatus, icmpStatus, agentStatus, fl) ==
  (IF directPingStatus = "responding" THEN 3
   ELSE IF directPingStatus = "no response" THEN -3 ELSE 0)
  + (IF icmpStatus = "responding" THEN 2
     ELSE IF icmpStatus = "no response" THEN -2 ELSE 0)
  + (IF agentStatus = "available" THEN 2
     ELSE IF agentStatus = "unavailable" THEN -2 ELSE 0)
  + (IF fl.hasAvailableInterface THEN 1
     ELSE IF fl.hasUnavailableInterface THEN -1 ELSE 0)

\* HostsVerdict with a zero score read as down
HostsVerdictZeroDown(availabilityScore) ==
  IF availabilityScore > 0 THEN "available" ELSE "unavailable"

\* availabilityStatus from the score
HostsVerdict(availabilityScore) ==
  IF availabilityScore > 0 THEN "available"
  ELSE IF availabilityScore < 0 THEN "unavailable"
  ELSE "unknown"

\* the locals of the per-host callback as declared (icmpItem, agentItem: the
\* position of the found item in items, 0 when find returns undefined)
HostsLocals ==
  [availabilityStatus |-> "unknown", icmpStatus |-> "unknown",
   agentStatus |-> "unknown", directPingStatus |-> "unknown",
   icmpItem |-> 0, agentItem |-> 0, availabilityScore |-> 0]

\* everything the callback computes once the items are there
HostsAnalyse(loc, h, its, t) ==
  LET icmp == HostsIcmpStatus(its, t)
      agent == HostsAgentStatus(its, t)
      sc == HostsScore(loc.directPingStatus, icmp, agent, HostsInterfaces(h))
  IN  [loc EXCEPT !.icmpItem = HostsIcmpItem(its), !.icmpStatus = icmp,
                  !.agentItem = HostsAgentItem(its), !.agentStatus = agent,
                  !.availabilityScore = sc, !.availabilityStatus = HostsVerdict(sc)]


\* ------------------------------------------------------------------------
\* POST /api/zabbix/metrics: the loop body run for one host
\* ------------------------------------------------------------------------
\* item.get with monitored: true returns the enabled items only
Monitored(its) == SelectSeq(its, IsEnabled)

\* predicate of the icmpPingItem search
MetricsIcmpMatch(item) ==
  \/ /\ item.key_ # Null /\ item.key_ # ""
     /\ \/ ToLowerCase(item.key_) = "icmpping"
        \/ ToLowerCase(item.key_) = "icmpping[]"
        \/ StartsWith(ToLowerCase(item.key_), "icmpping[")
        \/ Includes(ToLowerCase(item.key_), "icmp")
  \/ /\ item.name # Null /\ item.name # ""
     /\ \/ Includes(ToLowerCase(item.name), "icmp ping")
        \/ Includes(ToLowerCase(item.name), "ping response")

MetricsIcmpItem(its) == Find([i \in 1..Len(its) |-> MetricsIcmpMatch(its[i])])

\* predicate of the agentPingItem search
MetricsAgentMatch(item) ==
  \/ item.key_ = "agent.ping"
  \/ item.key_ = "agent.ping[]"
  \/ (item.key_ # Null /\ item.key_ # "" /\ StartsWith(ToLowerCase(item.key_), "agent.ping["))
  \/ (item.name # Null /\ item.name # "" /\ Includes(ToLowerCase(item.name), "agent ping"))

MetricsAgentItem(its) == Find([i \in 1..Len(its) |-> MetricsAgentMatch(its[i])])

MetricsIcmpCoerce(lastvalue) ==
  LET strValue == Trim(lastvalue)
      pingValue == ParseFloat(strValue)
  IN  IF ~IsNaN(pingValue) THEN (IF Positive(pingValue) THEN "responding" ELSE "no response")
      ELSE IF strValue = "1" \/ ToLowerCase(strValue) = "up" THEN "responding"
      ELSE IF strValue = "0" \/ ToLowerCase(strValue) = "down" THEN "no response"
      ELSE "unknown"

MetricsIcmpStatus(its) ==
  LET k == MetricsIcmpItem(its)
  IN  IF k # 0 /\ HasValue(its[k].lastvalue)
        THEN MetricsIcmpCoerce(its[k].lastvalue)
        ELSE "not configured"

MetricsAgentCoerce(lastvalue) ==
  LET strValue == Trim(lastvalue)
      agentValue == ParseFloat(strValue)
  IN  IF ~IsNaN(agentValue) THEN (IF Positive(agentValue) THEN "available" ELSE "unavailable")
      ELSE IF strValue = "1" \/ ToLowerCase(strValue) = "up" THEN "available"
      ELSE IF strValue = "0" \/ ToLowerCase(strValue) = "down" THEN "unavailable"
      ELSE "unknown"

MetricsAgentStatus(its) ==
  LET k == MetricsAgentItem(its)
  IN  IF k # 0 /\ HasValue(its[k].lastvalue)
        THEN MetricsAgentCoerce(its[k].lastvalue)
        ELSE "not configured"

\* MetricsInterfaceLoop that stops at the first interface whose availability
\* is known
RECURSIVE MetricsInterfaceLoopFirstKnown(_, _, _)
MetricsInterfaceLoopFirstKnown(ifaces, k, acc) ==
  IF k > Len(ifaces) THEN acc
  ELSE LET ifaceAvailable == ParseInt(OrElse(ifaces[k].available, "0"))
       IN  IF ifaceAvailable = Num(1)
             THEN [acc EXCEPT !.hasAvailableInterface = TRUE]
           ELSE IF ifaceAvailable = Num(2)
             THEN [acc EXCEPT !.hasUnavailableInterface = TRUE]
           ELSE MetricsInterfaceLoopFirstKnown(ifaces, k + 1, acc)

\* the interface loop: it stops at the first available interface
RECURSIVE MetricsInterfaceLoop(_, _, _)
MetricsInterfaceLoop(ifaces, k, acc) ==
  IF k > Len(ifaces) THEN acc
  ELSE LET ifaceAvailable == ParseInt(OrElse(ifaces[k].available, "0"))
       IN  IF ifaceAvailable = Num(1)
             THEN [acc EXCEPT !.hasAvailableInterface = TRUE]
           ELSE IF ifaceAvailable = Num(2)
             THEN MetricsInterfaceLoop(ifaces, k + 1, [acc EXCEPT !.hasUnavailableInterface = TRUE])
           ELSE MetricsInterfaceLoop(ifaces, k + 1, acc)

MetricsInterfaces(h) ==
  MetricsInterfaceLoop(h.interfaces, 1,
    [hasAvailableInterface |-> FALSE, hasUnavailableInterface |-> FALSE])

\* metricScore
MetricsScore(directPingStatus, icmpStatus, agentCheckStatus, fl) ==
  (IF directPingStatus = "responding" THEN 3
   ELSE IF directPingStatus = "no response" THEN -3 ELSE 0)
  + (IF icmpStatus = "responding" THEN 2
     ELSE IF icmpStatus = "no response" THEN -2 ELSE 0)
  + (IF agentCheckStatus = "available" THEN 2
     ELSE IF agentCheckStatus = "unavailable" THEN -2 ELSE 0)
  + (IF fl.hasAvailableInterface THEN 1
     ELSE IF fl.hasUnavailableInterface THEN -1 ELSE 0)

\* metricStatus from the score
MetricsVerdict(metricScore) ==
  IF metricScore > 0 THEN "available"
  ELSE IF metricScore < 0 THEN "unavailable"
  ELSE "unknown"

\* the locals of the loop body as declared (icmpPingItem, agentPingItem: the
\* position of the found item in allItems, 0 when find returns undefined)
MetricsLocals ==
  [metricStatus |-> "unknown", icmpStatus |-> "unknown",
   agentCheckStatus |-> "unknown", directPingStatus |-> "unknown",
   icmpPingItem |-> 0, agentPingItem |-> 0, metricScore |-> 0]

\* everything the loop body computes after the direct ping
MetricsAnalyse(loc, h, its) ==
  LET icmp == MetricsIcmpStatus(its)
      agent == MetricsAgentStatus(its)
      sc == MetricsScore(loc.directPingStatus, icmp, agent, MetricsInterfaces(h))
  IN  [loc EXCEPT !.icmpPingItem = MetricsIcmpItem(its), !.icmpStatus = icmp,
                  !.agentPingItem = MetricsAgentItem(its), !.agentCheckStatus = agent,
                  !.metricScore = sc, !.metricStatus = MetricsVerdict(sc)]

\* ------------------------------------------------------------------------
\* POST /api/zabbix/metrics: the numeric payload of one host
\* ------------------------------------------------------------------------
\* the predicates of the six metric searches (the key is tested as it is, the
\* name in lower case)
CpuMatch(item) ==
  \/ Includes(item.key_, "cpu.util")
  \/ Includes(item.key_, "system.cpu")
  \/ Includes(ToLowerCase(item.name), "cpu")

MemMatch(item) ==
  \/ Includes(item.key_, "memory.util")
  \/ Includes(item.key_, "vm.memory")
  \/ Includes(ToLowerCase(item.name), "memory utilization")

DiskMatch(item) ==
  \/ Includes(item.key_, "fs.pused")
  \/ Includes(item.key_, "disk")
  \/ Includes(ToLowerCase(item.name), "disk space")

UptimeMatch(item) ==
  \/ Includes(item.key_, "system.uptime")
  \/ Includes(item.key_, "uptime")
  \/ Includes(ToLowerCase(item.name), "uptime")

NetInMatch(item) ==
  \/ Includes(item.key_, "net.if.in")
  \/ Includes(ToLowerCase(item.name), "incoming")

NetOutMatch(item) ==
  \/ Includes(item.key_, "net.if.out")
  \/ Includes(ToLowerCase(item.name), "outgoing")

CpuItem(its) == Find([i \in 1..Len(its) |-> CpuMatch(its[i])])
MemItem(its) == Find([i \in 1..Len(its) |-> MemMatch(its[i])])
DiskItem(its) == Find([i \in 1..Len(its) |-> DiskMatch(its[i])])
UptimeItem(its) == Find([i \in 1..Len(its) |-> UptimeMatch(its[i])])
NetInItem(its) == Find([i \in 1..Len(its) |-> NetInMatch(its[i])])
NetOutItem(its) == Find([i \in 1..Len(its) |-> NetOutMatch(its[i])])

\* item?.lastvalue of a search result
LastValueOf(its, k) == IF k = 0 THEN Null ELSE its[k].lastvalue

\* ParseItemValue that keeps the whole seconds, percent or bytes only
ParseItemValueInt(value) ==
  IF value = Null \/ value = "" THEN Num(0)
  ELSE IF IsNaN(ParseInt(value)) THEN Num(0)
  ELSE ParseInt(value)

\* parseItemValue
ParseItemValue(value) ==
  IF value = Null \/ value = "" THEN Num(0)
  ELSE IF IsNaN(ParseFloat(value)) THEN Num(0)
  ELSE ParseFloat(value)

\* a % b of JavaScript on integers, b > 0: the sign of the dividend
JsRem(a, b) == IF a >= 0 THEN a % b ELSE -((-a) % b)

\* Math.floor(x / d) and Math.floor((x % m) / d) on the decimal x
FloorDiv(x, d) == x.mant \div (d * Pow10(x.scale))
FloorRemDiv(x, m, d) == JsRem(x.mant, m * Pow10(x.scale)) \div (d * Pow10(x.scale))

\* FormatUptime that prints every unit
FormatUptimeAllUnits(seconds) ==
  ToString(FloorDiv(seconds, 86400)) \o "d "
    \o ToString(FloorRemDiv(seconds, 86400, 3600)) \o "h "
    \o ToString(FloorRemDiv(seconds, 3600, 60)) \o "m"

\* formatUptime
FormatUptime(seconds) ==
  IF FloorDiv(seconds, 86400) > 0
    THEN ToString(FloorDiv(seconds, 86400)) \o "d "
           \o ToString(FloorRemDiv(seconds, 86400, 3600)) \o "h"
  ELSE IF FloorRemDiv(seconds, 86400, 3600) > 0
    THEN ToString(FloorRemDiv(seconds, 86400, 3600)) \o "h "
           \o ToString(FloorRemDiv(seconds, 3600, 60)) \o "m"
  ELSE ToString(FloorRemDiv(seconds, 3600, 60)) \o "m"

\* uptimeValue: N/A unless the uptime item has a value that parses (the
\* route registration pasted into this branch touches nothing read here)
UptimeValue(its) ==
  IF UptimeItem(its) # 0 /\ HasValue(its[UptimeItem(its)].lastvalue)
       /\ ~IsNaN(ParseFloat(its[UptimeItem(its)].lastvalue))
    THEN FormatUptime(ParseFloat(its[UptimeItem(its)].lastvalue))
    ELSE "N/A"

\* the numeric payload of the entry pushed for one host
NoPayload ==
  [cpuItem |-> 0, memItem |-> 0, diskItem |-> 0, uptimeItem |-> 0,
   netInItem |-> 0, netOutItem |-> 0,
   cpuUtilization |-> Num(0), memoryUtilization |-> Num(0), diskUsage |-> Num(0),
   uptime |-> "N/A", networkIn |-> Num(0), networkOut |-> Num(0)]

MetricsPayload(its) ==
  [cpuItem |-> CpuItem(its), memItem |-> MemItem(its), diskItem |-> DiskItem(its),
   uptimeItem |-> UptimeItem(its), netInItem |-> NetInItem(its),
   netOutItem |-> NetOutItem(its),
   cpuUtilization |-> ParseItemValue(LastValueOf(its, CpuItem(its))),
   memoryUtilization |-> ParseItemValue(LastValueOf(its, MemItem(its))),
   diskUsage |-> ParseItemValue(LastValueOf(its, DiskItem(its))),
   uptime |-> UptimeValue(its),
   networkIn |-> ParseItemValue(LastValueOf(its, NetInItem(its))),
   networkOut |-> ParseItemValue(LastValueOf(its, NetOutItem(its)))]

\* ------------------------------------------------------------------------
\* GET /api/zabbix/problems
\* ------------------------------------------------------------------------
TriggerIdSet == {ToString(13000 + k) : k \in 1..MaxTriggers}

\* problem.get answers sorted by eventid, descending
ProblemsOf(s) ==
  [i \in 1..Len(s) |-> [eventid |-> ToString(500 + Len(s) - i), objectid |-> s[i]]]

ProblemLists ==
  {ProblemsOf(s) : s \in UNION {[1..m -> TriggerIdSet] : m \in 0..MaxProblems}}

HostRef(h, n) == [host |-> h, name |-> n]

\* the hosts a trigger can come back with (selectHosts: host, name)
HostRefLists ==
  { <<>>,
    <<HostRef("web01", "Web 01")>>,
    <<HostRef("web01", "Web 01"), HostRef("db01", "DB 01")>>,
    <<HostRef("db01", "DB 01"), HostRef("web01", "Web 01")>> }

Trigger(id, hs) == [triggerid |-> id, hosts |-> hs]

\* set of the elements of a sequence
Range(s) == {s[i] : i \in 1..Len(s)}

\* trigger.get answers: some of the requested triggers, each once
TriggerLists(ids) ==
  { s \in UNION {[1..n -> {Trigger(id, hs) : id \in Range(ids), hs \in HostRefLists}] :
                   n \in 0..Cardinality(Range(ids))} :
      \A i, j \in 1..Len(s) : s[i].triggerid = s[j].triggerid => i = j }

\* triggerIds = problems.map(p => p.objectid)
TriggerIdsOf(ps) == [i \in 1..Len(ps) |-> ps[i].objectid]

UnknownHost == [hostname |-> "Unknown", host |-> "Unknown"]

\* the entry written for one trigger that has hosts
HostInfoOf(trigger) ==
  [hostname |-> OrElse(trigger.hosts[1].name, "Unknown"),
   host |-> OrElse(trigger.hosts[1].host, "Unknown")]

\* triggers.forEach(...): the trigger -> host map, as a set of pairs keyed
\* by trigger id (a later trigger with the same id overwrites)
RECURSIVE BuildTriggerHostMap(_, _, _)
BuildTriggerHostMap(triggers, k, map) ==
  IF k > Len(triggers) THEN map
  ELSE IF Len(triggers[k].hosts) > 0
    THEN BuildTriggerHostMap(triggers, k + 1,
           [id \in DOMAIN map \cup {triggers[k].triggerid} |->
              IF id = triggers[k].triggerid THEN HostInfoOf(triggers[k]) ELSE map[id]])
  ELSE BuildTriggerHostMap(triggers, k + 1, map)

EmptyMap == [id \in {} |-> UnknownHost]

\* triggerHostMap[problem.objectid] || { hostname: 'Unknown', host: 'Unknown' }
LookupHost(map, objectid) ==
  IF objectid \in DOMAIN map THEN map[objectid] ELSE UnknownHost

\* FormatProblems that keeps only the problems whose host was resolved
FormatProblemsResolvedOnly(ps, map) ==
  LET Resolved(p) == p.objectid \in DOMAIN map
      kept == SelectSeq(ps, Resolved)
  IN  [i \in 1..Len(kept) |->
         [eventid |-> kept[i].eventid,
          hostname |-> LookupHost(map, kept[i].objectid).hostname,
          host |-> LookupHost(map, kept[i].objectid).host]]

\* formattedProblems = problems.map(...)
FormatProblems(ps, map) ==
  [i \in 1..Len(ps) |->
     [eventid |-> ps[i].eventid,
      hostname |-> LookupHost(map, ps[i].objectid).hostname,
      host |-> LookupHost(map, ps[i].objectid).host]]

\* ------------------------------------------------------------------------
\* zabbixApiRequest: one JSON-RPC call
\* ------------------------------------------------------------------------
\* the error member of an envelope
RpcError(d, m) == [present |-> TRUE, data |-> d, message |-> m]

\* no error member in the envelope
NoError == [present |-> FALSE, data |-> Null, message |-> Null]

\* the envelope of a JSON-RPC answer
Envelope(e, r) == [json |-> TRUE, error |-> e, result |-> r]

\* what fetch resolves with (kind "http", the body being an envelope or no
\* JSON at all) or rejects with (kind "network")
HttpReply(st, text, b) == [kind |-> "http", status |-> st, statusText |-> text, body |-> b]

\* a body that is no JSON text
NotJson == [json |-> FALSE, error |-> NoError, result |-> Null]

NetworkFailure == [kind |-> "network", status |-> 0, statusText |-> "", body |-> NotJson]

NoReply == [kind |-> "none", status |-> 0, statusText |-> "", body |-> NotJson]

\* status line of the answers
StatusLines ==
  { <<200, "OK">>, <<204, "No Content">>, <<299, "">>, <<301, "Moved Permanently">>,
    <<199, "">>, <<404, "Not Found">>, <<500, "Internal Server Error">> }

ErrorMembers ==
  { NoError,
    RpcError("Session terminated, re-login, please.", "Invalid params."),
    RpcError("", "Invalid params."),
    RpcError(Null, "Invalid params."),
    RpcError("Not authorised.", Null),
    RpcError(Null, Null) }

ResultMembers == {Null, "<<>>", "<<10084>>"}

Bodies == {Envelope(e, r) : e \in ErrorMembers, r \in ResultMembers} \cup {NotJson}

ReplySet ==
  {HttpReply(l[1], l[2], b) : l \in StatusLines, b \in Bodies} \cup {NetworkFailure}

\* response.ok
Ok(r) == r.status >= 200 /\ r.status <= 299

\* a value in a template string
Shown(v) == IF v = Null THEN "undefined" ELSE v

Returned(v) == [kind |-> "return", value |-> v, message |-> ""]
Thrown(m) == [kind |-> "throw", value |-> Null, message |-> m]
NoOutcome == [kind |-> "none", value |-> Null, message |-> ""]

\* zabbixApiRequest that prefers the generic message of the error member
ZabbixApiRequestMessageFirst(r) ==
  IF r.kind = "network" THEN Thrown("fetch failed")
  ELSE IF ~Ok(r) THEN Thrown("Zabbix API request failed: " \o r.statusText)
  ELSE IF ~r.body.json THEN Thrown("Unexpected token < in JSON")
  ELSE IF r.body.error.present
    THEN Thrown("Zabbix API error: "
                  \o Shown(OrElse(r.body.error.message, r.body.error.data)))
  ELSE Returned(r.body.result)

\* zabbixApiRequest: what the call returns or throws on a reply
ZabbixApiRequest(r) ==
  IF r.kind = "network" THEN Thrown("fetch failed")
  ELSE IF ~Ok(r) THEN Thrown("Zabbix API request failed: " \o r.statusText)
  ELSE IF ~r.body.json THEN Thrown("Unexpected token < in JSON")
  ELSE IF r.body.error.present
    THEN Thrown("Zabbix API error: "
                  \o Shown(OrElse(r.body.error.data, r.body.error.message)))
  ELSE Returned(r.body.result)

\* ------------------------------------------------------------------------
\* State
\* ------------------------------------------------------------------------
VARIABLES
  pc,         \* where the running handler stands ("idle": none running)
  host,       \* the host being analysed
  configured, \* the items the monitoring server holds for it
  items,      \* the items fetched for it (the item.get answer)
  now,        \* the clock read while analysing it
  probe,      \* how the ping command ended for it ("none": not run)
  enriched,   \* locals / result of the /hosts callback
  metric,     \* locals / result of the /metrics loop body
  payload,    \* numeric payload of the /metrics loop body
  problems,   \* the problem.get answer of /problems
  rpc,        \* the trigger.get requests sent by /problems
  lookup,     \* the outcome of the trigger.get call of /problems
  response,   \* the HTTP response of the handler
  previous,   \* inputs and results of the call that ended last
  hosts,      \* whole call: the hosts of the call, in host.get / request order
  stage,      \* whole call: where the pipeline of each host stands
  results,    \* whole call: the pipeline state of each host
  finished,   \* whole call: the hosts in the order their pipelines ended
  fatal,      \* whole call: the fatal error met ("none": none)
  rpcReply,   \* one RPC call: what came back for the request
  rpcOutcome  \* one RPC call: what zabbixApiRequest returned or threw

bodyVars == <<host, configured, items, now, probe, enriched, metric, payload>>
problemVars == <<problems, rpc, lookup>>
callVars == <<hosts, stage, results, finished, fatal>>
wireVars == <<rpcReply, rpcOutcome>>

vars == <<pc, bodyVars, problemVars, response, previous, callVars, wireVars>>

NoHost == [interfaces |-> <<>>]
NoResponse == [status |-> 0, body |-> <<>>]
NoLookup == [state |-> "none", triggers |-> <<>>]

NoPrevious ==
  [kind |-> "none", host |-> NoHost, configured |-> <<>>, items |-> <<>>,
   probe |-> "none", now |-> 0, enriched |-> HostsLocals, metric |-> MetricsLocals,
   payload |-> NoPayload]

Init ==
  /\ pc = "idle"
  /\ host = NoHost
  /\ configured = <<>>
  /\ items = <<>>
  /\ now = 0
  /\ probe = "none"
  /\ enriched = HostsLocals
  /\ metric = MetricsLocals
  /\ payload = NoPayload
  /\ problems = <<>>
  /\ rpc = <<>>
  /\ lookup = NoLookup
  /\ response = NoResponse
  /\ previous = NoPrevious
  /\ hosts = <<>>
  /\ stage = <<>>
  /\ results = <<>>
  /\ finished = <<>>
  /\ fatal = "none"
  /\ rpcReply = NoReply
  /\ rpcOutcome = NoOutcome

\* ------------------------------------------------------------------------
\* pingHost
\* ------------------------------------------------------------------------
\* how the ping command can end: a reply (exit 0, "1 received"), no reply
\* (exit 1: exec rejects), or the command could not run (ping missing, bad
\* argument, exit 2: exec rejects)
PingOutcomes == {"reply", "no reply", "error"}

\* pingHost: true on a reply; its catch turns every rejection into false
PingHost(outcome) == outcome = "reply"

\* ------------------------------------------------------------------------
\* /hosts: one host through the callback of hosts.map
\* ------------------------------------------------------------------------
\* the callback starts on a host of the host.get answer; without an address
\* the direct ping is skipped
HostsStartFrom(hostSet) ==
  /\ pc = "idle"
  /\ \E h \in hostSet :
       /\ host' = h
       /\ IF HasIp(h)
            THEN pc' = "h_ping" /\ enriched' = HostsLocals
            ELSE pc' = "h_items" /\ enriched' = [HostsLocals EXCEPT !.directPingStatus = "no ip"]
  /\ UNCHANGED <<configured, items, now, probe, metric, payload>>
  /\ UNCHANGED <<problemVars, response, previous, wireVars, callVars>>

HostsStart == HostsStartFrom(HostSet)

\* HostsPingFrom that reports a first missed reply as responding (a reply of
\* the call before is remembered)
HostsPingDampedFrom(outcomes) ==
  /\ pc = "h_ping"
  /\ \E outcome \in outcomes :
       /\ probe' = outcome
       /\ enriched' =
            [enriched EXCEPT !.directPingStatus =
               IF ~PingHost(outcome) /\ previous.probe = "reply"
                 THEN "responding" ELSE PingStatus(PingHost(outcome))]
  /\ pc' = "h_items"
  /\ UNCHANGED <<host, configured, items, now, metric, payload>>
  /\ UNCHANGED <<problemVars, response, previous, wireVars, callVars>>

\* pingHost resolves (it never rejects: its catch returns false)
HostsPingFrom(outcomes) ==
  /\ pc = "h_ping"
  /\ \E outcome \in outcomes :
       /\ probe' = outcome
       /\ enriched' = [enriched EXCEPT !.directPingStatus = PingStatus(PingHost(outcome))]
  /\ pc' = "h_items"
  /\ UNCHANGED <<host, configured, items, now, metric, payload>>
  /\ UNCHANGED <<problemVars, response, previous, wireVars, callVars>>

HostsPing == HostsPingFrom(PingOutcomes)

\* item.get answers (every item of the host, enabled or not) and the rest of
\* the callback runs
HostsItemGetFrom(lists, clocks) ==
  /\ pc = "h_items"
  /\ \E its \in lists, t \in clocks :
       /\ configured' = its
       /\ items' = its
       /\ now' = t
       /\ enriched' = HostsAnalyse(enriched, host, its, t)
  /\ pc' = "h_done"
  /\ UNCHANGED <<host, probe, metric, payload>>
  /\ UNCHANGED <<problemVars, response, previous, wireVars, callVars>>

HostsItemGet == HostsItemGetFrom(ItemLists, NowSet)

\* item.get fails: the catch leaves items empty and the callback goes on
HostsItemGetFail ==
  /\ pc = "h_items"
  /\ items' = <<>>
  /\ enriched' = HostsAnalyse(enriched, host, <<>>, now)
  /\ pc' = "h_done"
  /\ UNCHANGED <<host, configured, now, probe, metric, payload>>
  /\ UNCHANGED <<problemVars, response, previous, wireVars, callVars>>

\* ------------------------------------------------------------------------
\* /metrics: one host through the body of the for loop
\* ------------------------------------------------------------------------
\* host.get answers with the host
MetricsHostGetFrom(hostSet) ==
  /\ pc = "idle"
  /\ \E h \in hostSet : host' = h
  /\ metric' = MetricsLocals
  /\ pc' = "m_items"
  /\ UNCHANGED <<configured, items, now, probe, enriched, payload>>
  /\ UNCHANGED <<problemVars, response, previous, wireVars, callVars>>

MetricsHostGet == MetricsHostGetFrom(HostSet)

\* item.get answers with the monitored items of the host; without an address
\* the direct ping is skipped and the rest of the body runs at once
MetricsItemGetFrom(lists) ==
  /\ pc = "m_items"
  /\ \E its \in lists :
       /\ configured' = its
       /\ items' = Monitored(its)
       /\ IF HasIp(host)
            THEN pc' = "m_ping" /\ UNCHANGED <<metric, payload>>
            ELSE /\ pc' = "m_done"
                 /\ metric' = MetricsAnalyse([metric EXCEPT !.directPingStatus = "no ip"],
                                             host, Monitored(its))
                 /\ payload' = MetricsPayload(Monitored(its))
  /\ UNCHANGED <<host, now, probe, enriched>>
  /\ UNCHANGED <<problemVars, response, previous, wireVars, callVars>>

MetricsItemGet == MetricsItemGetFrom(ItemLists)

\* item.get fails: the error reaches the handler's catch
MetricsItemGetFail ==
  /\ pc = "m_items"
  /\ response' = [status |-> 500, body |-> <<>>]
  /\ pc' = "m_error"
  /\ UNCHANGED <<bodyVars, problemVars, previous, wireVars, callVars>>

\* pingHost resolves and the rest of the body runs
MetricsPingFrom(outcomes) ==
  /\ pc = "m_ping"
  /\ \E outcome \in outcomes :
       /\ probe' = outcome
       /\ metric' = MetricsAnalyse(
                      [metric EXCEPT !.directPingStatus = PingStatus(PingHost(outcome))],
                      host, items)
  /\ payload' = MetricsPayload(items)
  /\ pc' = "m_done"
  /\ UNCHANGED <<host, configured, items, now, enriched>>
  /\ UNCHANGED <<problemVars, response, previous, wireVars, callVars>>

MetricsPing == MetricsPingFrom(PingOutcomes)

\* ------------------------------------------------------------------------
\* /problems
\* ------------------------------------------------------------------------
TriggerGetRequest(ids) == [method |-> "trigger.get", triggerids |-> ids]

\* TriggerRequests with one lookup per problem
TriggerRequestsPerProblem(ps) ==
  [i \in 1..Len(ps) |-> TriggerGetRequest(<<ps[i].objectid>>)]

\* the trigger.get calls made for a problem.get answer: one batched call
\* when there is at least one trigger id, none otherwise
TriggerRequests(ps) ==
  IF Len(TriggerIdsOf(ps)) > 0 THEN <<TriggerGetRequest(TriggerIdsOf(ps))>> ELSE <<>>

\* problem.get answers: with problems the batched trigger.get is sent, with
\* none the (empty) answer is returned at once
ProblemGet ==
  /\ pc = "idle"
  /\ \E ps \in ProblemLists :
       /\ problems' = ps
       /\ rpc' = rpc \o TriggerRequests(ps)
       /\ IF Len(TriggerIdsOf(ps)) > 0
            THEN pc' = "p_triggers" /\ UNCHANGED response
            ELSE /\ response' = [status |-> 200, body |-> FormatProblems(ps, EmptyMap)]
                 /\ pc' = "p_done"
  /\ UNCHANGED <<bodyVars, lookup, previous, wireVars, callVars>>

\* problem.get fails: the error reaches the handler's catch
ProblemGetFail ==
  /\ pc = "idle"
  /\ response' = [status |-> 500, body |-> <<>>]
  /\ pc' = "p_error"
  /\ UNCHANGED <<bodyVars, problemVars, previous, wireVars, callVars>>

\* trigger.get answers: the map is built and the problems are returned
TriggerGet ==
  /\ pc = "p_triggers"
  /\ \E triggers \in TriggerLists(TriggerIdsOf(problems)) :
       /\ lookup' = [state |-> "answered", triggers |-> triggers]
       /\ response' = [status |-> 200,
                       body |-> FormatProblems(problems,
                                  BuildTriggerHostMap(triggers, 1, EmptyMap))]
  /\ pc' = "p_done"
  /\ UNCHANGED <<bodyVars, problems, rpc, previous, wireVars, callVars>>

\* trigger.get fails: the inner catch logs and the map stays empty
TriggerGetFail ==
  /\ pc = "p_triggers"
  /\ lookup' = [state |-> "failed", triggers |-> <<>>]
  /\ response' = [status |-> 200, body |-> FormatProblems(problems, EmptyMap)]
  /\ pc' = "p_done"
  /\ UNCHANGED <<bodyVars, problems, rpc, previous, wireVars, callVars>>

\* nothing of a call outlives it: the locals are declared inside the
\* handlers and the module keeps no variable of its own
Reset ==
  /\ pc' = "idle"
  /\ host' = NoHost
  /\ configured' = <<>>
  /\ items' = <<>>
  /\ now' = 0
  /\ probe' = "none"
  /\ enriched' = HostsLocals
  /\ metric' = MetricsLocals
  /\ payload' = NoPayload
  /\ problems' = <<>>
  /\ rpc' = <<>>
  /\ lookup' = NoLookup
  /\ response' = NoResponse
  /\ hosts' = <<>>
  /\ stage' = <<>>
  /\ results' = <<>>
  /\ finished' = <<>>
  /\ fatal' = "none"
  /\ rpcReply' = NoReply
  /\ rpcOutcome' = NoOutcome

\* the handler has returned; the next request starts from scratch
Finish ==
  /\ pc \in {"h_done", "m_done", "m_error", "p_done", "p_error"}
  /\ Reset
  /\ UNCHANGED previous

Next ==
  \/ HostsStart
  \/ HostsPing
  \/ HostsItemGet
  \/ HostsItemGetFail
  \/ MetricsHostGet
  \/ MetricsItemGet
  \/ MetricsItemGetFail
  \/ MetricsPing
  \/ ProblemGet
  \/ ProblemGetFail
  \/ TriggerGet
  \/ TriggerGetFail
  \/ Finish

Spec == Init /\ [][Next]_vars

\* ------------------------------------------------------------------------
\* /metrics on hosts that carry performance items
\* ------------------------------------------------------------------------
\* performance items: numbers with and without fraction or exponent, a number
\* followed by a unit, junk, empty and absent values; an item that is no
\* utilisation but has "CPU" in its name
TelemetryCatalogue ==
  {Item("system.cpu.util", "CPU utilization", v, "0", FreshClock) : v \in {"37.5", "n/a", ""}}
    \cup {Item("system.hw.cpu[0,curfreq]", "CPU frequency", "2400", "0", FreshClock)}
    \cup {Item("vm.memory.size[pavailable]", "Memory utilization", "81.25", "0", FreshClock)}
    \cup {Item("vfs.fs.size[/,pused]", "Disk space usage", "64 %", "0", FreshClock)}
    \cup {Item("net.if.in[eth0]", "Incoming network traffic", "1e3", "0", FreshClock)}
    \cup {Item("net.if.out[eth0]", "Outgoing network traffic", Null, "0", FreshClock)}
    \cup {Item("system.uptime", "System uptime", v, "0", FreshClock) :
            v \in {"90061", "3700", "59", "172799.5", "n/a", ""}}

TelemetryLists ==
  {s \in UNION {[1..n -> TelemetryCatalogue] : n \in 0..MaxItems} : SortedByName(s)}

TelemetryHosts ==
  {[interfaces |-> <<Iface("10.0.0.5", "1")>>], [interfaces |-> <<>>]}

SnapshotHostGet == MetricsHostGetFrom(TelemetryHosts)
SnapshotItemGet == MetricsItemGetFrom(TelemetryLists)

NextSnapshot ==
  \/ SnapshotHostGet
  \/ SnapshotItemGet
  \/ MetricsItemGetFail
  \/ MetricsPing
  \/ Finish

SpecSnapshot == Init /\ [][NextSnapshot]_vars

\* ------------------------------------------------------------------------
\* One call after another
\* ------------------------------------------------------------------------
\* an item without value that is 599 s old at the first clock and 600 s old
\* at the second, items with a value, a performance item
RepeatCatalogue ==
  { Item("icmpping", "Ping check", "", "0", FreshClock),
    Item("icmpping", "Ping check", "1", "0", FreshClock),
    Item("agent.ping", "Agent check", "0", "0", StaleClock),
    Item("system.cpu.util", "CPU utilization", "37.5", "0", FreshClock) }

RepeatLists == {s \in ItemLists : Range(s) \subseteq RepeatCatalogue}

RepeatHosts ==
  {[interfaces |-> <<Iface("10.0.0.5", "2")>>], [interfaces |-> <<>>]}

RepeatOutcomes == {"reply", "no reply"}

RepeatClocks == {1600, 1601}

RepeatHostsStart == HostsStartFrom(RepeatHosts)
RepeatHostsPing == HostsPingFrom(RepeatOutcomes)
RepeatHostsItemGet == HostsItemGetFrom(RepeatLists, RepeatClocks)
RepeatMetricsHostGet == MetricsHostGetFrom(RepeatHosts)
RepeatMetricsItemGet == MetricsItemGetFrom(RepeatLists)
RepeatMetricsPing == MetricsPingFrom(RepeatOutcomes)

\* the handler has returned: what it received and what it answered is
\* written down, and the next request starts from scratch
FinishRecorded ==
  /\ pc \in {"h_done", "m_done", "m_error"}
  /\ previous' =
       [kind |-> IF pc = "h_done" THEN "hosts"
                 ELSE IF pc = "m_done" THEN "metrics" ELSE "metrics error",
        host |-> host, configured |-> configured, items |-> items, probe |-> probe,
        now |-> now, enriched |-> enriched, metric |-> metric, payload |-> payload]
  /\ Reset

NextRepeat ==
  \/ RepeatHostsStart
  \/ RepeatHostsPing
  \/ RepeatHostsItemGet
  \/ HostsItemGetFail
  \/ RepeatMetricsHostGet
  \/ RepeatMetricsItemGet
  \/ MetricsItemGetFail
  \/ RepeatMetricsPing
  \/ FinishRecorded

SpecRepeat == Init /\ [][NextRepeat]_vars

\* ------------------------------------------------------------------------
\* Whole calls of /hosts and /metrics, on several hosts
\* ------------------------------------------------------------------------
\* a host of the monitoring server; known: host.get returns it
CallHost(id, ifaces, known) == [hostid |-> id, interfaces |-> ifaces, known |-> known]

CallHostSet ==
  { CallHost("10084", <<Iface("10.0.0.5", "1")>>, TRUE),
    CallHost("10085", <<>>, TRUE),
    CallHost("10086", <<Iface("10.0.0.6", "2")>>, TRUE) }

\* a host id of the request body that the monitoring server does not know
UnknownHostSet == {CallHost("10099", <<>>, FALSE)}

\* sequences of at most MaxHosts distinct hosts
DistinctLists(hostSet) ==
  {s \in UNION {[1..n -> hostSet] : n \in 0..MaxHosts} :
     \A i, j \in 1..Len(s) : s[i] = s[j] => i = j}

CallItemLists == {<<>>, <<Item("icmpping", "Ping check", "0", "0", FreshClock)>>}

\* the pipeline of one host: what the callback or loop body holds for it
NewPipeline ==
  [items |-> <<>>, probe |-> "none", enriched |-> HostsLocals, metric |-> MetricsLocals,
   payload |-> NoPayload]

\* the entry returned for one host by /hosts
HostEntry(h, p) ==
  [hostid |-> h.hostid,
   availabilityStatus |-> p.enriched.availabilityStatus,
   icmpStatus |-> p.enriched.icmpStatus,
   agentStatus |-> p.enriched.agentStatus,
   directPingStatus |-> p.enriched.directPingStatus]

\* the entry pushed for one host by /metrics
MetricEntry(h, p) ==
  [hostid |-> h.hostid,
   cpuUtilization |-> p.payload.cpuUtilization,
   memoryUtilization |-> p.payload.memoryUtilization,
   diskUsage |-> p.payload.diskUsage,
   uptime |-> p.payload.uptime,
   networkIn |-> p.payload.networkIn,
   networkOut |-> p.payload.networkOut,
   status |-> p.metric.metricStatus,
   icmpStatus |-> p.metric.icmpStatus,
   agentCheckStatus |-> p.metric.agentCheckStatus,
   directPingStatus |-> p.metric.directPingStatus]

\* ListHostsBody with the entries in the order the pipelines ended
ListHostsBodyAsFinished(hs, ps) ==
  [k \in 1..Len(finished) |-> HostEntry(hs[finished[k]], ps[finished[k]])]

\* the array Promise.all resolves to: one entry per host, in the order of
\* hosts
ListHostsBody(hs, ps) == [i \in 1..Len(hs) |-> HostEntry(hs[i], ps[i])]

\* the metrics array: the entries pushed, in the order they were pushed
GetMetricsBody(hs, ps, order) == [k \in 1..Len(order) |-> MetricEntry(hs[order[k]], ps[order[k]])]

\* no settings row, or a row without URL or token: answered at once
ListHostsNotConfigured ==
  /\ pc = "idle"
  /\ fatal' = "settings"
  /\ response' = [status |-> 400, body |-> <<>>]
  /\ pc' = "lh_error"
  /\ UNCHANGED <<bodyVars, problemVars, previous, wireVars, hosts, stage, results, finished>>

\* the settings are there: host.get is sent
ListHostsRequest ==
  /\ pc = "idle"
  /\ pc' = "lh_hostget"
  /\ UNCHANGED <<bodyVars, problemVars, response, previous, wireVars, callVars>>

\* host.get answers: every callback of hosts.map starts, runs to its first
\* await (the ping, or item.get for a host without address) and waits
ListHostsHostGet ==
  /\ pc = "lh_hostget"
  /\ \E hs \in DistinctLists(CallHostSet) :
       /\ hosts' = hs
       /\ stage' = [i \in 1..Len(hs) |-> IF HasIp(hs[i]) THEN "ping" ELSE "items"]
       /\ results' =
            [i \in 1..Len(hs) |->
               IF HasIp(hs[i]) THEN NewPipeline
               ELSE [NewPipeline EXCEPT !.enriched.directPingStatus = "no ip"]]
  /\ pc' = "lh_enrich"
  /\ UNCHANGED <<bodyVars, problemVars, response, previous, wireVars, finished, fatal>>

\* host.get fails: the error reaches the handler's catch
ListHostsHostGetFail ==
  /\ pc = "lh_hostget"
  /\ fatal' = "host.get"
  /\ response' = [status |-> 500, body |-> <<>>]
  /\ pc' = "lh_error"
  /\ UNCHANGED <<bodyVars, problemVars, previous, wireVars, hosts, stage, results, finished>>

\* the monitoring server never answers host.get: fetch is given no timeout
\* and no abort signal, the await stays pending
ListHostsHostGetHang ==
  /\ pc = "lh_hostget"
  /\ pc' = "lh_hung"
  /\ UNCHANGED <<bodyVars, problemVars, response, previous, wireVars, callVars>>

\* ListHostsPing with directPingStatus declared outside the callback: the
\* ping of host i writes the one variable every unfinished callback reads
ListHostsPingShared(i) ==
  /\ pc = "lh_enrich"
  /\ stage[i] = "ping"
  /\ \E outcome \in PingOutcomes :
       results' =
         [j \in 1..Len(results) |->
            IF j = i
              THEN [results[j] EXCEPT !.probe = outcome,
                                      !.enriched.directPingStatus = PingStatus(PingHost(outcome))]
            ELSE IF stage[j] # "done"
              THEN [results[j] EXCEPT !.enriched.directPingStatus = PingStatus(PingHost(outcome))]
            ELSE results[j]]
  /\ stage' = [stage EXCEPT ![i] = "items"]
  /\ UNCHANGED <<pc, bodyVars, problemVars, response, previous, wireVars, hosts, finished, fatal>>

\* ListHostsPing that scores as soon as the ping is back, before item.get
ListHostsPingEager(i) ==
  /\ pc = "lh_enrich"
  /\ stage[i] = "ping"
  /\ \E outcome \in PingOutcomes :
       results' =
         [results EXCEPT
            ![i].probe = outcome,
            ![i].enriched =
               HostsAnalyse([@ EXCEPT !.directPingStatus = PingStatus(PingHost(outcome))],
                            hosts[i], <<>>, 0)]
  /\ stage' = [stage EXCEPT ![i] = "items"]
  /\ UNCHANGED <<pc, bodyVars, problemVars, response, previous, wireVars, hosts, finished, fatal>>

\* the ping of host i returns; item.get is sent for it
ListHostsPing(i) ==
  /\ pc = "lh_enrich"
  /\ stage[i] = "ping"
  /\ \E outcome \in PingOutcomes :
       results' = [results EXCEPT ![i].probe = outcome,
                                  ![i].enriched.directPingStatus = PingStatus(PingHost(outcome))]
  /\ stage' = [stage EXCEPT ![i] = "items"]
  /\ UNCHANGED <<pc, bodyVars, problemVars, response, previous, wireVars, hosts, finished, fatal>>

\* item.get answers for host i and its callback returns
ListHostsItemGet(i) ==
  /\ pc = "lh_enrich"
  /\ stage[i] = "items"
  /\ \E its \in CallItemLists, t \in NowSet :
       results' = [results EXCEPT ![i].items = its,
                                  ![i].enriched = HostsAnalyse(@, hosts[i], its, t)]
  /\ stage' = [stage EXCEPT ![i] = "done"]
  /\ finished' = Append(finished, i)
  /\ UNCHANGED <<pc, bodyVars, problemVars, response, previous, wireVars, hosts, fatal>>

\* item.get fails for host i: the catch of the callback logs, items stays
\* empty and the callback returns an entry all the same
ListHostsItemGetFail(i) ==
  /\ pc = "lh_enrich"
  /\ stage[i] = "items"
  /\ results' = [results EXCEPT ![i].enriched = HostsAnalyse(@, hosts[i], <<>>, 0)]
  /\ stage' = [stage EXCEPT ![i] = "done"]
  /\ finished' = Append(finished, i)
  /\ fatal' = IF fatal = "none" THEN "item.get" ELSE fatal
  /\ UNCHANGED <<pc, bodyVars, problemVars, response, previous, wireVars, hosts>>

\* the monitoring server never answers item.get for host i
ListHostsItemGetHang(i) ==
  /\ pc = "lh_enrich"
  /\ stage[i] = "items"
  /\ stage' = [stage EXCEPT ![i] = "hung"]
  /\ UNCHANGED <<pc, bodyVars, problemVars, response, previous, wireVars, hosts, results, finished, fatal>>

\* every callback has returned: Promise.all resolves and the array is sent
ListHostsRespond ==
  /\ pc = "lh_enrich"
  /\ \A i \in 1..Len(hosts) : stage[i] = "done"
  /\ response' = [status |-> 200, body |-> ListHostsBody(hosts, results)]
  /\ pc' = "lh_done"
  /\ UNCHANGED <<bodyVars, problemVars, previous, wireVars, callVars>>

\* /metrics: no settings row
GetMetricsNotConfigured ==
  /\ pc = "idle"
  /\ fatal' = "settings"
  /\ response' = [status |-> 400, body |-> <<>>]
  /\ pc' = "gm_error"
  /\ UNCHANGED <<bodyVars, problemVars, previous, wireVars, hosts, stage, results, finished>>

\* /metrics: the for loop starts on the host ids of the request body; the
\* first iteration sends its host.get, the others have not begun
GetMetricsRequest ==
  /\ pc = "idle"
  /\ \E hs \in DistinctLists(CallHostSet \cup UnknownHostSet) :
       /\ hosts' = hs
       /\ stage' = [i \in 1..Len(hs) |-> IF i = 1 THEN "hostget" ELSE "waiting"]
       /\ results' = [i \in 1..Len(hs) |-> NewPipeline]
  /\ pc' = "gm_loop"
  /\ UNCHANGED <<bodyVars, problemVars, response, previous, wireVars, finished, fatal>>

\* the stages once iteration i is over: the next iteration sends its host.get
NextIteration(i, how) ==
  [j \in 1..Len(stage) |->
     IF j = i THEN how ELSE IF j = i + 1 THEN "hostget" ELSE stage[j]]

\* GetMetricsHostGet without the continue: an id without host goes on
\* through the body like any other
GetMetricsHostGetKeepUnknown(i) ==
  /\ pc = "gm_loop"
  /\ stage[i] = "hostget"
  /\ stage' = [stage EXCEPT ![i] = "items"]
  /\ UNCHANGED <<pc, bodyVars, problemVars, response, previous, wireVars, hosts, results, finished, fatal>>

\* host.get answers for host i: item.get is sent, or the iteration is
\* skipped (continue) when the answer is empty
GetMetricsHostGet(i) ==
  /\ pc = "gm_loop"
  /\ stage[i] = "hostget"
  /\ stage' = IF hosts[i].known THEN [stage EXCEPT ![i] = "items"]
              ELSE NextIteration(i, "skipped")
  /\ UNCHANGED <<pc, bodyVars, problemVars, response, previous, wireVars, hosts, results, finished, fatal>>

\* host.get or item.get fails for host i: the error leaves the loop and
\* reaches the handler's catch
GetMetricsRpcFail(i) ==
  /\ pc = "gm_loop"
  /\ stage[i] \in {"hostget", "items"}
  /\ fatal' = IF stage[i] = "hostget" THEN "host.get" ELSE "item.get"
  /\ response' = [status |-> 500, body |-> <<>>]
  /\ pc' = "gm_error"
  /\ UNCHANGED <<bodyVars, problemVars, previous, wireVars, hosts, stage, results, finished>>

\* the monitoring server never answers host.get or item.get for host i
GetMetricsRpcHang(i) ==
  /\ pc = "gm_loop"
  /\ stage[i] \in {"hostget", "items"}
  /\ stage' = [stage EXCEPT ![i] = "hung"]
  /\ UNCHANGED <<pc, bodyVars, problemVars, response, previous, wireVars, hosts, results, finished, fatal>>

\* item.get answers for host i: the ping is started, or without an address
\* the rest of the body runs and the entry is pushed
GetMetricsItemGet(i) ==
  /\ pc = "gm_loop"
  /\ stage[i] = "items"
  /\ \E its \in CallItemLists :
       IF HasIp(hosts[i])
         THEN /\ results' = [results EXCEPT ![i].items = Monitored(its)]
              /\ stage' = [stage EXCEPT ![i] = "ping"]
              /\ UNCHANGED finished
         ELSE /\ results' =
                   [results EXCEPT
                      ![i].items = Monitored(its),
                      ![i].metric = MetricsAnalyse([@ EXCEPT !.directPingStatus = "no ip"],
                                                   hosts[i], Monitored(its)),
                      ![i].payload = MetricsPayload(Monitored(its))]
              /\ stage' = NextIteration(i, "done")
              /\ finished' = Append(finished, i)
  /\ UNCHANGED <<pc, bodyVars, problemVars, response, previous, wireVars, hosts, fatal>>

\* the ping of host i returns, the rest of the body runs and the entry is
\* pushed
GetMetricsPing(i) ==
  /\ pc = "gm_loop"
  /\ stage[i] = "ping"
  /\ \E outcome \in PingOutcomes :
       results' =
         [results EXCEPT
            ![i].probe = outcome,
            ![i].metric = MetricsAnalyse(
                            [@ EXCEPT !.directPingStatus = PingStatus(PingHost(outcome))],
                            hosts[i], results[i].items),
            ![i].payload = MetricsPayload(results[i].items)]
  /\ stage' = NextIteration(i, "done")
  /\ finished' = Append(finished, i)
  /\ UNCHANGED <<pc, bodyVars, problemVars, response, previous, wireVars, hosts, fatal>>

\* the loop is over: the metrics array is sent
GetMetricsRespond ==
  /\ pc = "gm_loop"
  /\ \A i \in 1..Len(hosts) : stage[i] \in {"done", "skipped"}
  /\ response' = [status |-> 200, body |-> GetMetricsBody(hosts, results, finished)]
  /\ pc' = "gm_done"
  /\ UNCHANGED <<bodyVars, problemVars, previous, wireVars, callVars>>

\* the response is out; the next request starts from scratch
FinishCall ==
  /\ pc \in {"lh_done", "lh_error", "gm_done", "gm_error"}
  /\ Reset
  /\ UNCHANGED previous

\* a step of the pipeline of one host
HostStep(i) ==
  \/ ListHostsPing(i)
  \/ ListHostsItemGet(i)
  \/ ListHostsItemGetFail(i)
  \/ ListHostsItemGetHang(i)
  \/ GetMetricsHostGet(i)
  \/ GetMetricsRpcFail(i)
  \/ GetMetricsRpcHang(i)
  \/ GetMetricsItemGet(i)
  \/ GetMetricsPing(i)

NextCalls ==
  \/ ListHostsNotConfigured
  \/ ListHostsRequest
  \/ ListHostsHostGet
  \/ ListHostsHostGetFail
  \/ ListHostsHostGetHang
  \/ ListHostsRespond
  \/ GetMetricsNotConfigured
  \/ GetMetricsRequest
  \/ GetMetricsRespond
  \/ \E i \in 1..Len(hosts) : ListHostsPing(i)
  \/ \E i \in 1..Len(hosts) : ListHostsItemGet(i)
  \/ \E i \in 1..Len(hosts) : ListHostsItemGetFail(i)
  \/ \E i \in 1..Len(hosts) : ListHostsItemGetHang(i)
  \/ \E i \in 1..Len(hosts) : GetMetricsHostGet(i)
  \/ \E i \in 1..Len(hosts) : GetMetricsRpcFail(i)
  \/ \E i \in 1..Len(hosts) : GetMetricsRpcHang(i)
  \/ \E i \in 1..Len(hosts) : GetMetricsItemGet(i)
  \/ \E i \in 1..Len(hosts) : GetMetricsPing(i)
  \/ FinishCall

SpecCalls == Init /\ [][NextCalls]_vars


\* ------------------------------------------------------------------------
\* One JSON-RPC call through zabbixApiRequest
\* ------------------------------------------------------------------------
RpcMethods == {"host.get", "item.get", "problem.get", "trigger.get"}

\* the request is posted and the call waits for fetch
RpcSend ==
  /\ pc = "idle"
  /\ \E m \in RpcMethods : rpc' = <<[method |-> m, triggerids |-> <<>>]>>
  /\ pc' = "rpc_wait"
  /\ UNCHANGED <<bodyVars, problems, lookup, response, previous, callVars, wireVars>>

\* fetch settles and the call returns or throws
RpcSettle ==
  /\ pc = "rpc_wait"
  /\ \E r \in ReplySet :
       /\ rpcReply' = r
       /\ rpcOutcome' = ZabbixApiRequest(r)
  /\ pc' = "rpc_done"
  /\ UNCHANGED <<bodyVars, problemVars, response, previous, callVars>>

\* the caller has taken the outcome
RpcFinish ==
  /\ pc = "rpc_done"
  /\ Reset
  /\ UNCHANGED previous

NextRpc == RpcSend \/ RpcSettle \/ RpcFinish

SpecRpc == Init /\ [][NextRpc]_vars

\* ------------------------------------------------------------------------
\* One host analysed at different times
\* ------------------------------------------------------------------------
\* items with and without value whose last update is 599 s old, 600 s old or
\* absent at clock 1600
ClockCatalogue ==
  {Item("icmpping", "Ping check", v, "0", lc) :
     v \in {"", "0"}, lc \in {FreshClock, StaleClock, Null}}
    \cup {Item("agent.ping", "Agent check", v, "0", lc) :
            v \in {Null, "1"}, lc \in {FreshClock, StaleClock}}

ClockLists ==
  {s \in UNION {[1..n -> ClockCatalogue] : n \in 0..MaxItems} : SortedByName(s)}

\* Date.now() / 1000: the moment of the last update, 599 s and 600 s later
ClockSet == {1001, 1600, 1601}

ClockHosts == {[interfaces |-> <<Iface("10.0.0.5", "1")>>], [interfaces |-> <<>>]}

ClockHostsStart == HostsStartFrom(ClockHosts)
ClockHostsItemGet == HostsItemGetFrom(ClockLists, ClockSet)
ClockMetricsHostGet == MetricsHostGetFrom(ClockHosts)
ClockMetricsItemGet == MetricsItemGetFrom(ClockLists)

NextClock ==
  \/ ClockHostsStart
  \/ HostsPing
  \/ ClockHostsItemGet
  \/ HostsItemGetFail
  \/ ClockMetricsHostGet
  \/ ClockMetricsItemGet
  \/ MetricsItemGetFail
  \/ MetricsPing
  \/ Finish

SpecClock == Init /\ [][NextClock]_vars

\* ------------------------------------------------------------------------
\* The reconciliation rule as specified
\* ------------------------------------------------------------------------
\* availability of one interface: unknown, available or unavailable
IfaceState(iface) ==
  IF iface.available = "1" THEN "available"
  ELSE IF iface.available = "2" THEN "unavailable"
  ELSE "unknown"

\* the InterfaceFlag signal of a host
InterfaceFlag(h) ==
  IF \E i \in 1..Len(h.interfaces) : IfaceState(h.interfaces[i]) = "available"
    THEN "available"
  ELSE IF \E i \in 1..Len(h.interfaces) : IfaceState(h.interfaces[i]) = "unavailable"
    THEN "unavailable"
  ELSE "unknown"

DirectWeight(sig) ==
  IF sig = "responding" THEN 3 ELSE IF sig = "no response" THEN -3 ELSE 0

IcmpWeight(sig) ==
  IF sig = "responding" THEN 2 ELSE IF sig = "no response" THEN -2 ELSE 0

AgentWeight(sig) ==
  IF sig = "available" THEN 2 ELSE IF sig = "unavailable" THEN -2 ELSE 0

FlagWeight(sig) ==
  IF sig = "available" THEN 1 ELSE IF sig = "unavailable" THEN -1 ELSE 0

WeightedScore(direct, icmp, agent, flag) ==
  DirectWeight(direct) + IcmpWeight(icmp) + AgentWeight(agent) + FlagWeight(flag)

SignVerdict(n) ==
  IF n > 0 THEN "available" ELSE IF n < 0 THEN "unavailable" ELSE "unknown"

\* the states of a signal that do not score
SilentItemStates == {"not configured", "no data", "stale data", "unknown"}
Silent(sig) == sig \notin {"responding", "no response", "available", "unavailable"}

\* age of an item's last update; an item without timestamp is as old as can be
AgeOf(item, t) ==
  IF item.lastclock = Null \/ item.lastclock = "" THEN t
  ELSE t - ParseInt(item.lastclock).mant

\* the item list with the timestamp of item k set to the current time
Refreshed(its, k, t) == [its EXCEPT ![k].lastclock = ToString(t)]

\* C1: in both endpoints the score is the weighted sum of the four signals
\* (+3/-3 direct probe, +2/-2 remote ICMP, +2/-2 remote agent, +1/-1
\* interface flag, 0 for every other state) and the verdict is its sign:
\* available above 0, unavailable below 0, unknown at 0.
C1_VerdictIsSignOfWeightedScore ==
  /\ pc = "h_done" =>
       /\ enriched.availabilityScore =
            WeightedScore(enriched.directPingStatus, enriched.icmpStatus,
                          enriched.agentStatus, InterfaceFlag(host))
       /\ enriched.availabilityStatus = SignVerdict(enriched.availabilityScore)
  /\ pc = "m_done" =>
       /\ metric.metricScore =
            WeightedScore(metric.directPingStatus, metric.icmpStatus,
                          metric.agentCheckStatus, InterfaceFlag(host))
       /\ metric.metricStatus = SignVerdict(metric.metricScore)

\* an exact cancellation: +3 -2 -1 gives unknown
C1_ExactCancellation ==
  /\ pc = "h_done"
  /\ enriched.directPingStatus = "responding"
  /\ enriched.icmpStatus = "no response"
  /\ Silent(enriched.agentStatus)
  /\ InterfaceFlag(host) = "unavailable"
  /\ enriched.availabilityStatus = "unknown"

ExactIcmp(i) == IsEnabled(i) /\ i.key_ = "icmpping"
ExactAgent(i) == IsEnabled(i) /\ i.key_ = "agent.ping"

\* C2: whenever the enabled items of a host hold an item whose key is exactly
\* icmpping (agent.ping), that item is the one selected for the ICMP (agent)
\* signal, whatever the order of the list.
C2_ExactKeyItemSelected ==
  pc = "h_done" =>
    /\ (\E i \in 1..Len(items) : ExactIcmp(items[i])) =>
         (enriched.icmpItem # 0 /\ ExactIcmp(items[enriched.icmpItem]))
    /\ (\E i \in 1..Len(items) : ExactAgent(items[i])) =>
         (enriched.agentItem # 0 /\ ExactAgent(items[enriched.agentItem]))

\* the coercion rule on one present value: numbers by their sign, then the
\* tokens up and down, anything else unknown
Coerced(v, sig, pos, neg) ==
  LET sv == Trim(v)
      n == ParseFloat(sv)
  IN  /\ (~IsNaN(n) /\ Positive(n)) => sig = pos
      /\ (~IsNaN(n) /\ ~Positive(n)) => sig = neg
      /\ (IsNaN(n) /\ ToLowerCase(sv) = "up") => sig = pos
      /\ (IsNaN(n) /\ ToLowerCase(sv) = "down") => sig = neg
      /\ (IsNaN(n) /\ ToLowerCase(sv) \notin {"up", "down"}) => sig = "unknown"
      /\ v = "1" => sig = pos
      /\ v = "0" => sig = neg

ValuelessLabel(item, t) == IF AgeOf(item, t) < 600 THEN "no data" ELSE "stale data"

\* C5: in /hosts and in /metrics a matched ICMP or agent item without last
\* value (absent or empty) reads no data when fresh and stale data when
\* stale, never not configured.
C5_ValuelessNoDataOrStale ==
  /\ pc = "h_done" =>
       /\ (enriched.icmpItem # 0 /\ ~HasValue(items[enriched.icmpItem].lastvalue)) =>
            enriched.icmpStatus = ValuelessLabel(items[enriched.icmpItem], now)
       /\ (enriched.agentItem # 0 /\ ~HasValue(items[enriched.agentItem].lastvalue)) =>
            enriched.agentStatus = ValuelessLabel(items[enriched.agentItem], now)
  /\ pc = "m_done" =>
       /\ (metric.icmpPingItem # 0 /\ ~HasValue(items[metric.icmpPingItem].lastvalue)) =>
            metric.icmpStatus \in {"no data", "stale data"}
       /\ (metric.agentPingItem # 0 /\ ~HasValue(items[metric.agentPingItem].lastvalue)) =>
            metric.agentCheckStatus \in {"no data", "stale data"}

\* C6: direct probe responding against remote ICMP no response, agent
\* unavailable and interface flag unavailable scores -2, unavailable; direct
\* probe responding against remote ICMP no response alone scores 1, available.
C6_DirectProbeDominance ==
  /\ pc = "h_done" =>
       /\ ( /\ enriched.directPingStatus = "responding"
            /\ enriched.icmpStatus = "no response"
            /\ enriched.agentStatus = "unavailable"
            /\ InterfaceFlag(host) = "unavailable" ) =>
              (enriched.availabilityScore = -2 /\ enriched.availabilityStatus = "unavailable")
       /\ ( /\ enriched.directPingStatus = "responding"
            /\ enriched.icmpStatus = "no response"
            /\ Silent(enriched.agentStatus)
            /\ InterfaceFlag(host) = "unknown" ) =>
              (enriched.availabilityScore = 1 /\ enriched.availabilityStatus = "available")
  /\ pc = "m_done" =>
       /\ ( /\ metric.directPingStatus = "responding"
            /\ metric.icmpStatus = "no response"
            /\ metric.agentCheckStatus = "unavailable"
            /\ InterfaceFlag(host) = "unavailable" ) =>
              (metric.metricScore = -2 /\ metric.metricStatus = "unavailable")
       /\ ( /\ metric.directPingStatus = "responding"
            /\ metric.icmpStatus = "no response"
            /\ Silent(metric.agentCheckStatus)
            /\ InterfaceFlag(host) = "unknown" ) =>
              (metric.metricScore = 1 /\ metric.metricStatus = "available")

\* the probe answers, the three other signals say down
C6_ProbeOutvoted ==
  /\ pc = "h_done"
  /\ enriched.directPingStatus = "responding"
  /\ enriched.icmpStatus = "no response"
  /\ enriched.agentStatus = "unavailable"
  /\ InterfaceFlag(host) = "unavailable"
  /\ enriched.availabilityStatus = "unavailable"

\* C7: when the direct probe is in a non-scoring state, remote ICMP and
\* remote agent are each not configured, no data, stale data or unknown, and
\* no interface is flagged, the score is 0 and the verdict is unknown.
C7_AllSilentUnknown ==
  /\ ( /\ pc = "h_done"
       /\ Silent(enriched.directPingStatus)
       /\ enriched.icmpStatus \in SilentItemStates
       /\ enriched.agentStatus \in SilentItemStates
       /\ InterfaceFlag(host) = "unknown" ) =>
         (enriched.availabilityScore = 0 /\ enriched.availabilityStatus = "unknown")
  /\ ( /\ pc = "m_done"
       /\ Silent(metric.directPingStatus)
       /\ metric.icmpStatus \in SilentItemStates
       /\ metric.agentCheckStatus \in SilentItemStates
       /\ InterfaceFlag(host) = "unknown" ) =>
         (metric.metricScore = 0 /\ metric.metricStatus = "unknown")

\* a host without address whose matched items carry no value
C7_SilentHost ==
  /\ pc = "h_done"
  /\ enriched.directPingStatus = "no ip"
  /\ enriched.icmpStatus = "stale data"
  /\ enriched.agentStatus = "no data"
  /\ InterfaceFlag(host) = "unknown"
  /\ enriched.availabilityStatus = "unknown"

AllPositive(direct, icmp, agent, flag) ==
  direct = "responding" /\ icmp = "responding" /\ agent = "available" /\ flag = "available"

AllNegative(direct, icmp, agent, flag) ==
  direct = "no response" /\ icmp = "no response" /\ agent = "unavailable"
    /\ flag = "unavailable"

\* the score and verdict of both endpoints lie in lo..hi, with hi and
\* verdict available when all four signals are positive and lo and verdict
\* unavailable when all four are negative
ScoreExtremes(lo, hi) ==
  /\ enriched.availabilityScore \in lo..hi
  /\ metric.metricScore \in lo..hi
  /\ pc = "h_done" =>
       /\ AllPositive(enriched.directPingStatus, enriched.icmpStatus,
                      enriched.agentStatus, InterfaceFlag(host)) =>
            (enriched.availabilityScore = hi /\ enriched.availabilityStatus = "available")
       /\ AllNegative(enriched.directPingStatus, enriched.icmpStatus,
                      enriched.agentStatus, InterfaceFlag(host)) =>
            (enriched.availabilityScore = lo /\ enriched.availabilityStatus = "unavailable")
  /\ pc = "m_done" =>
       /\ AllPositive(metric.directPingStatus, metric.icmpStatus,
                      metric.agentCheckStatus, InterfaceFlag(host)) =>
            (metric.metricScore = hi /\ metric.metricStatus = "available")
       /\ AllNegative(metric.directPingStatus, metric.icmpStatus,
                      metric.agentCheckStatus, InterfaceFlag(host)) =>
            (metric.metricScore = lo /\ metric.metricStatus = "unavailable")

\* C8 as stated: the score always lies between -9 and 9; it is 9 with
\* verdict available when all four signals are positive and -9 with verdict
\* unavailable when all four are negative.
C8_ScoreRangeNine == ScoreExtremes(-9, 9)

\* C8 as amended: the score always lies between -8 and 8; it is 8
\* (3 + 2 + 2 + 1) with verdict available when all four signals are positive
\* and -8 with verdict unavailable when all four are negative.
C8_ScoreRange == ScoreExtremes(-8, 8)

\* all four signals positive
C8_MaximalScore ==
  /\ pc = "h_done"
  /\ AllPositive(enriched.directPingStatus, enriched.icmpStatus,
                 enriched.agentStatus, InterfaceFlag(host))
  /\ enriched.availabilityScore = 8
  /\ enriched.availabilityStatus = "available"

\* number of trigger.get calls sent so far by the running /problems call
TriggerCalls == Cardinality({i \in 1..Len(rpc) : rpc[i].method = "trigger.get"})

\* C9: one /problems call sends at most one trigger.get: exactly one once
\* problem.get has returned at least one problem, none otherwise.
C9_OneBatchedLookup ==
  /\ TriggerCalls <= 1
  /\ pc \in {"p_triggers", "p_done"} =>
       TriggerCalls = (IF Len(problems) > 0 THEN 1 ELSE 0)

\* several problems answered after a single lookup
C9_ManyProblemsOneLookup ==
  /\ pc = "p_done"
  /\ Len(problems) >= 3
  /\ TriggerCalls = 1

\* the host a problem is specified to carry: the first host of its trigger
\* in the trigger.get answer, the sentinel when the call failed or the
\* answer holds no such trigger or a trigger without hosts
HostOfProblem(p) ==
  IF /\ lookup.state = "answered"
     /\ \E j \in 1..Len(lookup.triggers) :
          lookup.triggers[j].triggerid = p.objectid /\ Len(lookup.triggers[j].hosts) > 0
    THEN LET j == CHOOSE j \in 1..Len(lookup.triggers) :
                    lookup.triggers[j].triggerid = p.objectid
         IN  [hostname |-> lookup.triggers[j].hosts[1].name,
              host |-> lookup.triggers[j].hosts[1].host]
    ELSE [hostname |-> "Unknown", host |-> "Unknown"]

\* C10: /problems returns one entry per problem of problem.get, in the same
\* order; an entry carries the name and host of the first host of its
\* trigger, or the sentinel Unknown for both when the trigger lookup failed
\* or returned no trigger or no host for it.
C10_NoProblemLost ==
  pc = "p_done" =>
    /\ response.status = 200
    /\ Len(response.body) = Len(problems)
    /\ \A i \in 1..Len(problems) :
         /\ response.body[i].eventid = problems[i].eventid
         /\ response.body[i].hostname = HostOfProblem(problems[i]).hostname
         /\ response.body[i].host = HostOfProblem(problems[i]).host

\* an answer where one problem is resolved and another gets the sentinel
C10_MixedResolution ==
  /\ pc = "p_done"
  /\ lookup.state = "answered"
  /\ \E i, j \in 1..Len(response.body) :
       response.body[i].hostname = "Unknown" /\ response.body[j].hostname = "Web 01"

\* the metric fields of a pushed entry with the item each was read from
MetricFields ==
  { <<payload.cpuItem, payload.cpuUtilization>>,
    <<payload.memItem, payload.memoryUtilization>>,
    <<payload.diskItem, payload.diskUsage>>,
    <<payload.netInItem, payload.networkIn>>,
    <<payload.netOutItem, payload.networkOut>> }

\* parse-or-zero of one field read from item k of the fetched items
ParsedOrZero(k, value) ==
  IF k = 0 THEN value = Num(0)
  ELSE IF ~HasValue(items[k].lastvalue) THEN value = Num(0)
  ELSE IF IsNaN(ParseFloat(items[k].lastvalue)) THEN value = Num(0)
  ELSE value = ParseFloat(items[k].lastvalue)

\* C12: each numeric field of the entry pushed for a host (cpu, memory, disk,
\* network in, network out) is the parsed number of the matched item's last
\* value when it parses ("37.5" gives 37.5) and 0 when no item matched or the
\* value is absent, empty or unparseable; a bad value does not fail the call.
C12_ParseOrZero ==
  /\ pc = "m_done" =>
       /\ \A f \in MetricFields : ParsedOrZero(f[1], f[2])
       /\ (payload.cpuItem # 0 /\ items[payload.cpuItem].lastvalue = "37.5") =>
            payload.cpuUtilization = [nan |-> FALSE, mant |-> 375, scale |-> 1]
       /\ response = NoResponse
  /\ pc = "m_ping" => response = NoResponse

\* cpu 37.5 next to an uptime item whose value does not parse
C12_FractionKept ==
  /\ pc = "m_done"
  /\ payload.cpuItem # 0
  /\ payload.cpuUtilization = [nan |-> FALSE, mant |-> 375, scale |-> 1]
  /\ payload.uptimeItem # 0
  /\ items[payload.uptimeItem].lastvalue = "n/a"
  /\ payload.memoryUtilization = Num(0)

\* the whole seconds of a non-negative decimal
WholeSeconds(x) == x.mant \div Pow10(x.scale)

\* the uptime string of s whole seconds as specified
UptimeString(s) ==
  LET d == s \div 86400
      h == (s % 86400) \div 3600
      m == (s % 3600) \div 60
  IN  IF d > 0 THEN ToString(d) \o "d " \o ToString(h) \o "h"
      ELSE IF h > 0 THEN ToString(h) \o "h " \o ToString(m) \o "m"
      ELSE ToString(m) \o "m"

\* C13: for a non-negative number of seconds s the uptime string is 'Dd Hh'
\* when d > 0, 'Hh Mm' when d = 0 and h > 0, 'Mm' otherwise, with
\* d = s div 86400, h = (s mod 86400) div 3600, m = (s mod 3600) div 60; the
\* field is N/A when no uptime item matched or its value is absent or
\* unparseable.
C13_UptimeFormat ==
  pc = "m_done" =>
    IF payload.uptimeItem = 0 THEN payload.uptime = "N/A"
    ELSE IF ~HasValue(items[payload.uptimeItem].lastvalue) THEN payload.uptime = "N/A"
    ELSE IF IsNaN(ParseFloat(items[payload.uptimeItem].lastvalue)) THEN payload.uptime = "N/A"
    ELSE payload.uptime =
           UptimeString(WholeSeconds(ParseFloat(items[payload.uptimeItem].lastvalue)))

\* 90061 s reads 1d 1h: the minute is dropped
C13_DaysAndHours ==
  /\ pc = "m_done"
  /\ payload.uptimeItem # 0
  /\ items[payload.uptimeItem].lastvalue = "90061"
  /\ payload.uptime = "1d 1h"

\* the running call has received what the call before it received: the same
\* host.get and item.get answers and the same probe outcome
SameInputs(kind) ==
  /\ previous.kind = kind
  /\ previous.host = host
  /\ previous.items = items
  /\ previous.probe = probe

\* C11 as stated: two /hosts (two /metrics) calls that receive identical
\* host.get and item.get answers and identical probe outcomes return
\* identical signals, verdicts and metrics.
C11_SameInputsSameResult ==
  /\ (pc = "h_done" /\ SameInputs("hosts")) => enriched = previous.enriched
  /\ (pc = "m_done" /\ SameInputs("metrics")) =>
       (metric = previous.metric /\ payload = previous.payload)

\* C11 as amended: two /hosts calls that receive identical host.get and
\* item.get answers and identical probe outcomes return identical scores and
\* verdicts, and identical signals when they also read the same clock; two
\* /metrics calls that receive identical answers and probe outcomes return
\* identical signals, verdicts and metrics.
C11_SameInputsSameClockSameResult ==
  /\ (pc = "h_done" /\ SameInputs("hosts")) =>
       /\ enriched.availabilityStatus = previous.enriched.availabilityStatus
       /\ enriched.availabilityScore = previous.enriched.availabilityScore
       /\ enriched.directPingStatus = previous.enriched.directPingStatus
       /\ now = previous.now => enriched = previous.enriched
  /\ (pc = "m_done" /\ SameInputs("metrics")) =>
       (metric = previous.metric /\ payload = previous.payload)

\* a host analysed twice on the same answers, the second time with a probe
\* that again finds no reply
C11_SecondIdenticalCall ==
  /\ pc = "h_done"
  /\ SameInputs("hosts")
  /\ now = previous.now
  /\ probe = "no reply"
  /\ Len(items) > 0
  /\ enriched = previous.enriched
  /\ enriched.availabilityStatus = "unavailable"

\* C14: in /hosts and /metrics, absent or incomplete settings and every
\* failed host.get or item.get call fail the whole call: the response is one
\* error without any host entry, never a list of hosts.
C14_FatalErrorsAbort ==
  fatal # "none" =>
    /\ response.status # 200
    /\ response.body = <<>>
    /\ pc \notin {"lh_done", "gm_done"}

\* C15: when the ping command of a host cannot be run, the direct probe
\* signal of that host does not score (it adds 0, not -3) and the host is
\* still analysed.
C15_ProbeErrorUnknown ==
  /\ (pc = "h_done" /\ probe = "error") =>
       /\ Silent(enriched.directPingStatus)
       /\ enriched.availabilityScore =
            IcmpWeight(enriched.icmpStatus) + AgentWeight(enriched.agentStatus)
              + FlagWeight(InterfaceFlag(host))
  /\ (pc = "m_done" /\ probe = "error") =>
       /\ Silent(metric.directPingStatus)
       /\ metric.metricScore =
            IcmpWeight(metric.icmpStatus) + AgentWeight(metric.agentCheckStatus)
              + FlagWeight(InterfaceFlag(host))

\* a number 0..255 written with one to three digits
IsOctet(s) == Len(s) \in 1..3 /\ DigitRun(s) = Len(s) /\ DigitsVal(s) <= 255

\* an IPv4 address in dotted notation
IsAddress(s) ==
  \E a, b, c \in 1..Len(s) :
    /\ a < b /\ b < c
    /\ Char(s, a) = "." /\ Char(s, b) = "." /\ Char(s, c) = "."
    /\ IsOctet(SubSeq(s, 1, a - 1))
    /\ IsOctet(SubSeq(s, a + 1, b - 1))
    /\ IsOctet(SubSeq(s, b + 1, c - 1))
    /\ IsOctet(SubSeq(s, c + 1, Len(s)))

\* the host of the running call has no usable address
NoAddress == pc # "idle" /\ ~IsAddress(FirstIp(host))

\* C16: when the first interface address of a host is absent or malformed no
\* ping is attempted for it, the direct probe signal does not score and the
\* host still receives a verdict.
C16_NoProbeWithoutAddress ==
  NoAddress =>
    /\ pc \notin {"h_ping", "m_ping"}
    /\ probe = "none"
    /\ pc = "h_done" =>
         (Silent(enriched.directPingStatus)
            /\ enriched.availabilityStatus = SignVerdict(enriched.availabilityScore))
    /\ pc = "m_done" =>
         (Silent(metric.directPingStatus)
            /\ metric.metricStatus = SignVerdict(metric.metricScore))

\* the item with its enabled flag set
Enabled(i) == [i EXCEPT !.status = "0"]

\* C18: in /hosts and /metrics a disabled item is never selected as the ICMP
\* or the agent item, also when it is the only item matching by key or name;
\* a host whose matching items are all disabled gets not configured.
C18_OnlyEnabledItems ==
  /\ pc = "h_done" =>
       /\ enriched.icmpItem # 0 => IsEnabled(items[enriched.icmpItem])
       /\ enriched.agentItem # 0 => IsEnabled(items[enriched.agentItem])
       /\ (\A k \in 1..Len(configured) :
             HostsIcmpMatch(Enabled(configured[k])) => ~IsEnabled(configured[k]))
            => (enriched.icmpItem = 0 /\ enriched.icmpStatus = "not configured")
       /\ (\A k \in 1..Len(configured) :
             HostsAgentMatch(Enabled(configured[k])) => ~IsEnabled(configured[k]))
            => (enriched.agentItem = 0 /\ enriched.agentStatus = "not configured")
  /\ pc = "m_done" =>
       /\ metric.icmpPingItem # 0 =>
            (IsEnabled(items[metric.icmpPingItem])
               /\ \E k \in 1..Len(configured) :
                    configured[k] = items[metric.icmpPingItem] /\ IsEnabled(configured[k]))
       /\ metric.agentPingItem # 0 => IsEnabled(items[metric.agentPingItem])
       /\ (\A k \in 1..Len(configured) :
             MetricsIcmpMatch(configured[k]) => ~IsEnabled(configured[k]))
            => (metric.icmpPingItem = 0 /\ metric.icmpStatus = "not configured")
       /\ (\A k \in 1..Len(configured) :
             MetricsAgentMatch(configured[k]) => ~IsEnabled(configured[k]))
            => (metric.agentPingItem = 0 /\ metric.agentCheckStatus = "not configured")

\* a host whose only ICMP item is disabled: not configured, score from the
\* probe alone
C18_DisabledItemIgnored ==
  /\ pc = "h_done"
  /\ \E k \in 1..Len(configured) :
       configured[k].key_ = "icmpping" /\ ~IsEnabled(configured[k])
  /\ \A k \in 1..Len(configured) : configured[k].key_ = "icmpping"
  /\ enriched.icmpStatus = "not configured"
  /\ enriched.directPingStatus = "no response"
  /\ enriched.availabilityScore = -3

AvailabilityVerdicts == {"available", "unavailable", "unknown"}

\* C17: a successful /hosts call returns exactly one entry per host of the
\* host.get answer, in the order of that answer whatever the order in which
\* the per-host pipelines ended, each with one verdict among available,
\* unavailable and unknown.
C17_OneVerdictPerHost ==
  pc = "lh_done" =>
    /\ response.status = 200
    /\ Len(response.body) = Len(hosts)
    /\ \A i \in 1..Len(hosts) :
         /\ response.body[i].hostid = hosts[i].hostid
         /\ response.body[i].availabilityStatus \in AvailabilityVerdicts
         /\ response.body[i].availabilityStatus = results[i].enriched.availabilityStatus

\* the pipeline of the second host ended before that of the first
C17_FinishedOutOfOrder ==
  /\ pc = "lh_done"
  /\ Len(hosts) >= 2
  /\ finished[1] = 2
  /\ response.body[1].hostid = hosts[1].hostid
  /\ response.body[1].availabilityStatus # response.body[2].availabilityStatus

\* the pipeline of host i waits for a probe or an RPC answer
Pending(i) == stage[i] \in {"hostget", "items", "ping"}

\* the pipeline of host i is over, or will never move again
Over(i) == stage[i] \in {"done", "skipped", "hung"}

\* C19: in /hosts and /metrics, while the probe or RPC call of one host is
\* pending, the pipeline of every other host of the call that is not over
\* can take its next step: no host waits for another host.
C19_NoHostWaits ==
  pc \in {"lh_enrich", "gm_loop"} =>
    \A i, j \in 1..Len(hosts) :
      (i # j /\ Pending(i) /\ ~Over(j)) => ENABLED HostStep(j)

\* a call is running and has not answered
CallOpen == pc \in {"lh_hostget", "lh_hung", "lh_enrich", "gm_loop"}

\* C20: a running /hosts or /metrics call can always move on towards its
\* response, also when the monitoring server never answers an RPC call: no
\* call is left waiting for ever.
C20_NoCallStuck == CallOpen => ENABLED NextCalls

\* the reply is an envelope read from a 2xx answer
EnvelopeRead(r) == r.kind = "http" /\ r.status \in 200..299 /\ r.body.json

\* the detail of an error member, or its generic message when the detail is
\* absent or empty
ErrorText(e) == IF e.data # Null /\ e.data # "" THEN e.data ELSE Shown(e.message)

\* C21: an RPC call returns the result of the envelope exactly when the status
\* is 2xx and the envelope has no error object; on any other status it fails
\* with the transport error made of the status text, whatever the body; on an
\* error object it fails with the protocol error made of the detail field, or
\* of the generic message field when the detail is absent or empty.
C21_RpcOutcome ==
  pc = "rpc_done" =>
    /\ rpcOutcome.kind \in {"return", "throw"}
    /\ rpcOutcome.kind = "return" <=> (EnvelopeRead(rpcReply) /\ ~rpcReply.body.error.present)
    /\ rpcOutcome.kind = "return" => rpcOutcome.value = rpcReply.body.result
    /\ (rpcReply.kind = "http" /\ ~(rpcReply.status \in 200..299)) =>
         rpcOutcome = Thrown("Zabbix API request failed: " \o rpcReply.statusText)
    /\ (EnvelopeRead(rpcReply) /\ rpcReply.body.error.present) =>
         rpcOutcome = Thrown("Zabbix API error: " \o ErrorText(rpcReply.body.error))

\* a 2xx answer whose error object has an empty detail: the generic message is
\* reported
C21_DetailFallsBack ==
  /\ pc = "rpc_done"
  /\ rpcReply.status = 200
  /\ rpcReply.body.json
  /\ rpcReply.body.error = RpcError("", "Invalid params.")
  /\ rpcOutcome = Thrown("Zabbix API error: Invalid params.")

\* the key fragments of the six metric searches
KeyFragments ==
  [cpu |-> {"cpu.util", "system.cpu"}, mem |-> {"memory.util", "vm.memory"},
   disk |-> {"fs.pused", "disk"}, uptime |-> {"system.uptime", "uptime"},
   netIn |-> {"net.if.in"}, netOut |-> {"net.if.out"}]

KeyMatches(m, item) == \E f \in KeyFragments[m] : Includes(item.key_, f)

Selected(m) ==
  CASE m = "cpu" -> payload.cpuItem
    [] m = "mem" -> payload.memItem
    [] m = "disk" -> payload.diskItem
    [] m = "uptime" -> payload.uptimeItem
    [] m = "netIn" -> payload.netInItem
    [] m = "netOut" -> payload.netOutItem

\* C22: for each of the six metrics, when some fetched item matches by a key
\* fragment, the item the metric is taken from matches by a key fragment,
\* wherever an item matching by name only stands in the list.
C22_KeyMatchBeforeNameMatch ==
  pc = "m_done" =>
    \A m \in DOMAIN KeyFragments :
      (\E k \in 1..Len(items) : KeyMatches(m, items[k])) =>
        (Selected(m) # 0 /\ KeyMatches(m, items[Selected(m)]))

\* how often id occurs in the list ids
Occurrences(ids, id) == Cardinality({i \in 1..Len(ids) : ids[i] = id})

\* C25: the id list of the batched trigger.get holds every trigger id that
\* the problems reference exactly once, also when several problems reference
\* the same trigger.
C25_DistinctTriggerIds ==
  \A k \in 1..Len(rpc) :
    rpc[k].method = "trigger.get" =>
      \A j \in 1..Len(problems) : Occurrences(rpc[k].triggerids, problems[j].objectid) = 1

\* the direct probe signal of a host, from its own address and probe outcome
OwnProbeSignal(h, outcome) ==
  IF HasIp(h) THEN PingStatus(PingHost(outcome)) ELSE "no ip"

\* the entry of a host, from its own interfaces, probe outcome and items
OwnEntry(h, outcome, its) ==
  HostsAnalyse([HostsLocals EXCEPT !.directPingStatus = OwnProbeSignal(h, outcome)],
               h, its, 1600)

NotScored(i) ==
  /\ results[i].enriched.availabilityScore = 0
  /\ results[i].enriched.availabilityStatus = "unknown"
  /\ results[i].enriched.icmpStatus = "unknown"
  /\ results[i].enriched.agentStatus = "unknown"
  /\ results[i].metric.metricScore = 0
  /\ results[i].metric.metricStatus = "unknown"

\* C24: in the pipeline of a host, score and verdict are computed only once
\* both the direct probe and the item fetch of that host are over; while
\* either is pending nothing is scored.
C24_JoinBeforeVerdict ==
  pc \in {"lh_enrich", "lh_done", "gm_loop", "gm_done"} =>
    \A i \in 1..Len(hosts) :
      /\ stage[i] # "done" => NotScored(i)
      /\ stage[i] = "done" =>
           /\ HasIp(hosts[i]) => results[i].probe # "none"
           /\ \E k \in 1..Len(finished) : finished[k] = i

\* a host whose probe is back with a reply and whose item fetch is pending
\* has no score yet, while its sibling is scored
C24_ProbeBackFetchPending ==
  /\ pc = "lh_enrich"
  /\ Len(hosts) = 2
  /\ stage[1] = "items"
  /\ results[1].probe = "reply"
  /\ NotScored(1)
  /\ stage[2] = "done"
  /\ results[2].enriched.availabilityScore # 0

\* the ids of the request for which host.get returns a host, in request order
KnownIds(hs) ==
  LET known == SelectSeq(hs, LAMBDA h : h.known)
  IN  [k \in 1..Len(known) |-> known[k].hostid]

\* position in the request of the host with the given id
PositionOf(id) == CHOOSE i \in 1..Len(hosts) : hosts[i].hostid = id

\* C30: a successful /metrics call returns one snapshot per requested id for
\* which host.get returns a host, in the order of the request; an id without
\* host is skipped, the call goes on and the other snapshots are what they
\* are without it.
C30_MetricsSequence ==
  pc = "gm_done" =>
    /\ response.status = 200
    /\ Len(response.body) <= Len(hosts)
    /\ [k \in 1..Len(response.body) |-> response.body[k].hostid] = KnownIds(hosts)
    /\ \A k \in 1..Len(response.body) :
         LET i == PositionOf(response.body[k].hostid)
         IN  response.body[k] =
               MetricEntry(hosts[i],
                 [NewPipeline EXCEPT
                    !.metric =
                       MetricsAnalyse(
                         [MetricsLocals EXCEPT
                            !.directPingStatus = OwnProbeSignal(hosts[i], results[i].probe)],
                         hosts[i], results[i].items),
                    !.payload = MetricsPayload(results[i].items)])

\* the first requested id has no host: the only snapshot is the second one's
C30_UnknownSkipped ==
  /\ pc = "gm_done"
  /\ Len(hosts) = 2
  /\ ~hosts[1].known
  /\ stage[1] = "skipped"
  /\ Len(response.body) = 1
  /\ response.body[1].hostid = hosts[2].hostid

\* which way a signal points: up, down, or nowhere
Polarity(sig) ==
  IF sig \in {"responding", "available"} THEN 1
  ELSE IF sig \in {"no response", "unavailable"} THEN -1
  ELSE 0

\* trust in the four signals (direct probe, remote ICMP, remote agent,
\* interface flag): 1 is the most trusted
TrustRank == <<1, 2, 2, 3>>

\* with exactly two signals speaking and opposing each other, the verdict is
\* that of the more trusted one, unknown when they are trusted alike
FollowsTrust(p, verdict) ==
  LET speaking == {x \in 1..4 : p[x] # 0}
  IN  (Cardinality(speaking) = 2 /\ \E x, y \in speaking : p[x] = -p[y]) =>
        \A x, y \in speaking :
          /\ TrustRank[x] < TrustRank[y] => verdict = SignVerdict(p[x])
          /\ (x # y /\ TrustRank[x] = TrustRank[y]) => verdict = "unknown"

\* C26: when exactly two signals speak and oppose each other, the verdict
\* follows the direct probe against remote ICMP, remote agent and interface
\* flag, follows remote ICMP and remote agent against the interface flag, and
\* is unknown for remote ICMP against remote agent.
C26_TrustOrdering ==
  /\ pc = "h_done" =>
       FollowsTrust(<<Polarity(enriched.directPingStatus), Polarity(enriched.icmpStatus),
                      Polarity(enriched.agentStatus), Polarity(InterfaceFlag(host))>>,
                    enriched.availabilityStatus)
  /\ pc = "m_done" =>
       FollowsTrust(<<Polarity(metric.directPingStatus), Polarity(metric.icmpStatus),
                      Polarity(metric.agentCheckStatus), Polarity(InterfaceFlag(host))>>,
                    metric.metricStatus)

\* remote ICMP responding against an unavailable interface, nothing else
\* speaking: available
C26_IcmpBeatsFlag ==
  /\ pc = "h_done"
  /\ Polarity(enriched.directPingStatus) = 0
  /\ enriched.icmpStatus = "responding"
  /\ Polarity(enriched.agentStatus) = 0
  /\ InterfaceFlag(host) = "unavailable"
  /\ enriched.availabilityStatus = "available"

\* what the interface flags add to the score
FlagPoints(fl) ==
  IF fl.hasAvailableInterface THEN 1 ELSE IF fl.hasUnavailableInterface THEN -1 ELSE 0

\* C27: over the interfaces of a host the interface flag adds 1 iff some
\* interface has availability 1, -1 iff none has availability 1 and some has
\* availability 2, and 0 otherwise; the full scan of /hosts and the scan of
\* /metrics that stops at the first available interface add the same.
C27_InterfaceFold ==
  /\ FlagPoints(HostsInterfaces(host)) = FlagWeight(InterfaceFlag(host))
  /\ FlagPoints(MetricsInterfaces(host)) = FlagPoints(HostsInterfaces(host))
  /\ pc = "h_done" =>
       enriched.availabilityScore
         - DirectWeight(enriched.directPingStatus) - IcmpWeight(enriched.icmpStatus)
         - AgentWeight(enriched.agentStatus)
         = FlagWeight(InterfaceFlag(host))
  /\ pc = "m_done" =>
       metric.metricScore
         - DirectWeight(metric.directPingStatus) - IcmpWeight(metric.icmpStatus)
         - AgentWeight(metric.agentCheckStatus)
         = FlagWeight(InterfaceFlag(host))

\* /metrics on a host whose first interface is unavailable and whose second
\* is available: the flag adds 1
C27_UnavailableThenAvailable ==
  /\ pc = "m_done"
  /\ Len(host.interfaces) = 2
  /\ host.interfaces[1].available = "2"
  /\ host.interfaces[2].available = "1"
  /\ metric.metricScore
       - DirectWeight(metric.directPingStatus) - IcmpWeight(metric.icmpStatus)
       - AgentWeight(metric.agentCheckStatus) = 1

\* the same items in the same order, last-update timestamps apart
SameButClocks(a, b) ==
  /\ Len(a) = Len(b)
  /\ \A k \in 1..Len(a) : [a[k] EXCEPT !.lastclock = Null] = [b[k] EXCEPT !.lastclock = Null]

\* two labels of a signal differ at most between 'no data' and 'stale data'
SameUpToStaleness(x, y) == x = y \/ {x, y} = {"no data", "stale data"}

MetricsOnSame ==
  MetricsAnalyse([MetricsLocals EXCEPT !.directPingStatus = enriched.directPingStatus],
                 host, Monitored(items))

\* C29: for the same host, the same probe outcome and the same enabled
\* items, the status of /metrics is the availabilityStatus of /hosts, and the
\* ICMP and agent signals of the two endpoints add the same to the score.
C29_EndpointsAgree ==
  pc = "h_done" =>
    /\ MetricsOnSame.metricStatus = enriched.availabilityStatus
    /\ IcmpWeight(MetricsOnSame.icmpStatus) = IcmpWeight(enriched.icmpStatus)
    /\ AgentWeight(MetricsOnSame.agentCheckStatus) = AgentWeight(enriched.agentStatus)

====
